---- MODULE Spec2Model ----
(***************************************************************************)
(* Verification model of the desuarchive-mlp-backup fetch-and-reconcile    *)
(* engine: the archive builder (downloader.js, downloadChunk and its       *)
(* merge helper addPost) and the merge helper of the upgrade scanner       *)
(* (reCheck.js, addPost, fed by ffUtils' fetchPost and fetchThread).       *)
(***************************************************************************)
EXTENDS Integers, Sequences, FiniteSets, TLC

(***************************************************************************)
(* Bounds of the model.                                                    *)
(***************************************************************************)
\* Post numbers are 1..MaxNum.
MaxNum == 4
\* Processes launched one after the other (a restart after an exit, an abort
\* or a termination).
MaxRuns == 2
\* The most posts one window holds.
MaxChunk == 2

Nums == 1..MaxNum

(***************************************************************************)
(* The three hosts and their priorities.                                   *)
(***************************************************************************)
Desu == "desuarchive.org"
B4k == "arch.b4k.dev"
Moe == "archived.moe"
Sites == {Desu, B4k, Moe}

PRIORITY(site) ==
    CASE site = Desu -> 3
      [] site = B4k -> 2
      [] site = Moe -> 1
      [] OTHER -> 0

(***************************************************************************)
(* Records.  A post is the JSON object a host answers; origin stands for   *)
(* its content (which host served it), cp for comment_processed (whether   *)
(* it holds a thread backlink to a host, the only thing deDBfy reads).     *)
(* extra_data is absent, an array of entries, or some other value.  A      *)
(* placeholder carries the time it was made.                               *)
(***************************************************************************)
NoEntry == [kind |-> "none"]

Placeholder(n, reason, ts) ==
    [kind |-> "missing", num |-> n, exception |-> reason, timestamp |-> ts]

PostNotFound == "Post: not found"
OtherReason == "Thread: not found"

EdAbsent == [shape |-> "absent", items |-> << >>]
EdEmpty == [shape |-> "array", items |-> << >>]
EdOther == [shape |-> "other", items |-> << >>]

Plain == [link |-> "none", host |-> Desu]
ThreadLink(site) == [link |-> "thread", host |-> site]
PostLink(site) == [link |-> "post", host |-> site]

\* The thread a post number belongs to: odd numbers are replies of thread 1,
\* even numbers of thread 2 (threads interleave on the board).
ThreadOf(n) == IF n % 2 = 1 THEN 1 ELSE 2

Members(tn) == {n \in Nums : ThreadOf(n) = tn}

MkPost(n, sub, site, cp, ed) ==
    [kind |-> "post", num |-> n, subnum |-> sub, thread_num |-> ThreadOf(n),
     origin |-> site, cp |-> cp, extra_data |-> ed]

IsMissing(r) == r.kind = "missing"
IsPost(r) == r.kind = "post"
IsGhost(r) == r.kind = "post" /\ r.subnum # "0"

(***************************************************************************)
(* deDBfy: thread backlinks to the given host become post backlinks.       *)
(***************************************************************************)
DeDBfy(cp, site) ==
    IF cp.link = "thread" /\ cp.host = site THEN PostLink(site) ELSE cp

(***************************************************************************)
(* The provenance tag addPost and setSourceAndDeDBfy push.                 *)
(***************************************************************************)
SourceTag(site, wrapped) == [source |-> site, wrapped |-> wrapped]

\* Mutant: the list is stored without the tag pushed.
M_PushSource_Dropped(post, site) ==
    LET ed == post.extra_data
    IN [post EXCEPT !.extra_data =
            [shape |-> "array",
             items |-> IF ed.shape = "array" THEN ed.items ELSE << >>]]

\* downloader.js 522-530: extra_data || [], a non-array is kept inside the tag.
PushSource(post, site) ==
    LET ed == post.extra_data
        isArr == ed.shape \in {"array", "absent"}
        base == IF ed.shape = "array" THEN ed.items ELSE << >>
    IN [post EXCEPT !.extra_data =
            [shape |-> "array",
             items |-> Append(base, SourceTag(site, ~isArr))]]

(***************************************************************************)
(* Effective source and priority of a stored record (ffUtils getSource,    *)
(* getPriority).                                                           *)
(***************************************************************************)
RECURSIVE FindSource(_)
FindSource(items) ==
    IF items = << >> THEN Desu
    ELSE IF Head(items).source \in {Moe, B4k} THEN Head(items).source
    ELSE FindSource(Tail(items))

getSource(post) ==
    IF post.extra_data.shape = "array" THEN FindSource(post.extra_data.items)
    ELSE Desu

\* getPriority of a post; for a site name it is PRIORITY(site).
getPriority(post) == PRIORITY(getSource(post))

(***************************************************************************)
(* downloader.js addPost.  The result holds the store, the candidate       *)
(* object as the call leaves it (the call mutates it) and whether the      *)
(* call put the candidate into the store.                                  *)
(***************************************************************************)
Ret(dl, post, stored) == [downloaded |-> dl, post |-> post, stored |-> stored]

\* Mutant: a non-primary candidate is dropped only when a real post is stored.
M_NonPrimaryRejected_NoEnd(dl, end, num, site) ==
    site # Desu /\ IsPost(dl[num])

\* Mutant: a non-primary candidate is dropped past the window end only.
M_NonPrimaryRejected_EndOnly(dl, end, num, site) ==
    site # Desu /\ num > end

\* Lines 499-508: a non-primary candidate is dropped past the window end or
\* when a real post is already stored.
NonPrimaryRejected(dl, end, num, site) ==
    site # Desu /\ (num > end \/ IsPost(dl[num]))

\* Mutant: a placeholder candidate is dropped only when it repeats the entry.
M_PlaceholderRejected_OnlySame(existing, post) ==
    IsMissing(existing) /\ existing.exception = post.exception

\* Lines 517-520: a placeholder candidate is dropped unless the entry is a
\* placeholder with another reason.
PlaceholderRejected(existing, post) ==
    ~IsMissing(existing) \/ existing.exception = post.exception

\* Mutant: every accepted real candidate gets a tag, the primary host's too.
M_Tagged_Always(post, site) == PushSource(post, site)

\* Lines 521-531: a non-primary real candidate gets the source tag.
Tagged(post, site) ==
    IF site # Desu THEN PushSource(post, site) ELSE post

addPost(dl, start, end, post, site) ==
    IF IsGhost(post) THEN Ret(dl, post, FALSE)
    ELSE IF post.num < start THEN Ret(dl, post, FALSE)
    ELSE IF NonPrimaryRejected(dl, end, post.num, site) THEN Ret(dl, post, FALSE)
    ELSE
        LET p1 == IF IsPost(post)
                  THEN [post EXCEPT !.cp = DeDBfy(@, site)] ELSE post
            existing == dl[post.num]
        IN  IF existing.kind = "none"
            THEN Ret([dl EXCEPT ![post.num] = p1], p1, TRUE)
            ELSE IF IsMissing(p1)
            THEN IF PlaceholderRejected(existing, p1)
                 THEN Ret(dl, p1, FALSE)
                 ELSE Ret([dl EXCEPT ![post.num] = p1], p1, TRUE)
            ELSE LET p2 == Tagged(p1, site)
                 IN  Ret([dl EXCEPT ![post.num] = p2], p2, TRUE)

\* The store after addPost.
Added(dl, start, end, post, site) == addPost(dl, start, end, post, site).downloaded

\* The loops over a thread's op and posts (lines 577-588, 628-639): one
\* addPost per post, in ascending key order.
RECURSIVE AddAll(_, _, _, _, _)
AddAll(dl, start, end, posts, site) ==
    IF posts = {} THEN dl
    ELSE LET p == CHOOSE q \in posts : \A r \in posts : q.num <= r.num
         IN  AddAll(Added(dl, start, end, p, site), start, end, posts \ {p}, site)

(***************************************************************************)
(* State.                                                                  *)
(***************************************************************************)
VARIABLES
    \* Disk.
    manifestFile,   \* manifest.json: [lastDownLoaded, daily]
    cacheFile,      \* post_lookup_cache.json: the set of posts it lists
    chunkFile,      \* the chunk file of the current run: [state, name, recs]
    written,        \* names of the chunk files written completely
    \* The process.
    pc,             \* where main / downloadChunk stands
    full,           \* started with --full
    RETRY_CNT_MAX,  \* the module-level retry limit
    runN,           \* downloadChunk invocations so far (stands for the clock)
    \* downloadChunk's locals.
    manifest, start, end, newPosts, toDownload, downloaded, pNum, threadNum,
    consPost,
    \* What happened in the current run, read by the properties only:
    \*   manifest0       manifest.json when the run started
    \*   asked           per host: numbers whose post request it answered at all
    \*   notFound        per host: numbers whose post request it answered not-found
    \*   postFound       per host: numbers whose post request it answered with that post
    \*   threadNotFound  thread numbers the primary host's resolver answered not-found
    \*   reServed        numbers of postFound[B4k] a later thread of B4k held again
    \*   fatal           hosts a fetch to which failed fatally
    \*   missingAfterPrimary  the primary pass left a window number without a
    \*                   real post
    \*   cache0          the cache file as it was when the run started
    \*   needless        numbers asked of the secondary host while the store
    \*                   held a real post for them
    \* (when addPost is exercised on its own: the last call, see NoCall).
    hist,
    \* A fetch helper exercised on its own (the thread resolver, myFetch):
    server,         \* what the host holds and how it answers
    frame           \* the locals of the helper under way

disk == <<manifestFile, cacheFile, chunkFile, written>>
process == <<full, RETRY_CNT_MAX, runN>>
window == <<manifest, start, end, newPosts, toDownload>>
locals == <<downloaded, pNum, threadNum, consPost>>

aux == <<server, frame>>

vars == <<disk, pc, process, window, locals, hist, aux>>

Idle == [at |-> "idle"]

Min(a, b) == IF a < b THEN a ELSE b
Max(a, b) == IF a > b THEN a ELSE b

DEFAULT_MANIFEST == [lastDownLoaded |-> 0, daily |-> << >>]
\* downloader.js:444 sets 100_000; scaled to MaxChunk so that the cap cuts
\* windows.
CHUNK_POSTS_MAX == MaxChunk

EmptyStore == [n \in Nums |-> NoEntry]
NoChunk == [state |-> "none", name |-> <<0, 0, 0>>, recs |-> << >>]
PerHost == [s \in Sites |-> {}]
NoHistory(m) ==
    [manifest0 |-> m, asked |-> PerHost, notFound |-> PerHost, postFound |-> PerHost,
     threadNotFound |-> {}, reServed |-> {}, fatal |-> {},
     missingAfterPrimary |-> FALSE, needless |-> {}, cache0 |-> {}]
\* Once a run is over only its start manifest and its fatal failures are kept.
Over(h) == [NoHistory(h.manifest0) EXCEPT !.fatal = h.fatal, !.cache0 = h.cache0]

(***************************************************************************)
(* What the hosts may answer.                                              *)
(***************************************************************************)
\* extra_data of the posts the post endpoint serves during a run: an array,
\* or for the secondary host (whose posts addPost tags) also something else.
RunExtraData(site) == IF site = Desu THEN {EdEmpty} ELSE {EdEmpty, EdOther}

\* A post request for n is answered with a record carrying that number; it
\* may be a ghost reply (subnum other than "0").
PostAnswers(n, site) ==
    {MkPost(n, sub, site, Plain, ed) : sub \in {"0", "1"}, ed \in RunExtraData(site)}

\* A resolved thread: any subset of the thread's posts, each possibly a ghost.
ThreadAnswers(tn, site) ==
    {{MkPost(n, IF n \in sg[2] THEN "1" ELSE "0", site, Plain, EdEmpty) : n \in sg[1]} :
        sg \in {x \in (SUBSET Members(tn)) \X (SUBSET Members(tn)) : x[2] \subseteq x[1]}}

\* Outcomes of a post or thread request other than a record: the error values
\* and a throw out of myFetch (retry limit exhausted).
Failures == {"not found", "other error", "fetch failed"}
IsFatal(outcome) == outcome \in {"other error", "fetch failed"}

\* Mutant: only an absent entry counts as missing, a placeholder does not.
M_Missing_AbsentOnly(dl, n) == dl[n].kind = "none"

\* Mutant: every number counts as missing.
M_Missing_Always(dl, n) == TRUE

\* Lines 593-594, 606-607: no entry, or a placeholder.
Missing(dl, n) == dl[n].kind = "none" \/ IsMissing(dl[n])

RealNums(posts) == {p.num : p \in {q \in posts : ~IsGhost(q)}}

(***************************************************************************)
(* downloadChunk.                                                          *)
(***************************************************************************)
Init ==
    /\ manifestFile = DEFAULT_MANIFEST
    /\ cacheFile = {}
    /\ chunkFile = NoChunk
    /\ written = {}
    /\ pc = "start"
    /\ full \in BOOLEAN
    /\ RETRY_CNT_MAX = 20
    /\ runN = 0
    /\ manifest = DEFAULT_MANIFEST
    /\ start = 0 /\ end = 0 /\ newPosts = 0 /\ toDownload = 0
    /\ downloaded = EmptyStore
    /\ pNum = 0 /\ threadNum = 0
    /\ consPost = << >>
    /\ hist = NoHistory(manifestFile)
    /\ server = Idle /\ frame = Idle

\* Lines 459-480: the cache entries of the window seed the store.
Seeded(cache, s, e) ==
    [n \in Nums |->
        IF n >= s /\ n <= e /\ \E p \in cache : p.num = n
        THEN CHOOSE p \in cache : p.num = n
        ELSE NoEntry]

\* Lines 449-480, with the index fetch failing, finding nothing new, or
\* opening a window.
Start ==
    /\ pc = "start"
    /\ runN < MaxRuns
    /\ runN' = runN + 1
    /\ manifest' = manifestFile
    /\ chunkFile' = NoChunk
    /\ consPost' = << >>
    /\ pNum' = manifestFile.lastDownLoaded + 1
    /\ threadNum' = 0
    /\ \/ /\ pc' = "aborted"
          /\ hist' = [NoHistory(manifestFile) EXCEPT !.fatal = {Desu},
                                                      !.cache0 = cacheFile]
          /\ UNCHANGED <<start, end, newPosts, toDownload, downloaded>>
       \/ \E lastDesuPost \in 0..MaxNum :
            LET np == lastDesuPost - manifestFile.lastDownLoaded
                td == Min(Max(np, 0), CHUNK_POSTS_MAX)
                s == manifestFile.lastDownLoaded + 1
            IN  /\ newPosts' = np
                /\ toDownload' = td
                /\ hist' = [NoHistory(manifestFile) EXCEPT !.cache0 = cacheFile]
                /\ IF td = 0
                   THEN /\ pc' = "exit"
                        /\ UNCHANGED <<start, end, downloaded>>
                   ELSE /\ pc' = "primary"
                        /\ start' = s
                        /\ end' = s + td - 1
                        /\ downloaded' = Seeded(cacheFile, s, s + td - 1)
    /\ UNCHANGED <<manifestFile, cacheFile, written, full, RETRY_CNT_MAX>>
    /\ UNCHANGED aux

\* Line 554: the number is already in the store.
PrimarySkip ==
    /\ pc = "primary" /\ pNum <= end
    /\ downloaded[pNum].kind # "none"
    /\ pNum' = pNum + 1
    /\ UNCHANGED <<disk, pc, process, window, downloaded, threadNum, consPost, hist>>
    /\ UNCHANGED aux

\* Lines 557-566: the post request to the primary host.
PrimaryPost ==
    /\ pc = "primary" /\ pNum <= end
    /\ downloaded[pNum].kind = "none"
    /\ \/ \E f \in Failures :
            IF IsFatal(f)
            THEN /\ pc' = "aborted"
                 /\ hist' = [hist EXCEPT !.fatal = @ \cup {Desu}]
                 /\ UNCHANGED <<downloaded, pNum, threadNum>>
            ELSE /\ downloaded' = Added(downloaded, start, end,
                                        Placeholder(pNum, PostNotFound, runN), Desu)
                 /\ hist' = [hist EXCEPT !.notFound[Desu] = @ \cup {pNum},
                                         !.asked[Desu] = @ \cup {pNum}]
                 /\ pNum' = pNum + 1
                 /\ UNCHANGED <<pc, threadNum>>
       \/ \E fPost \in PostAnswers(pNum, Desu) :
            /\ downloaded' = Added(downloaded, start, end, fPost, Desu)
            /\ hist' = [hist EXCEPT !.postFound[Desu] = @ \cup RealNums({fPost}),
                                    !.asked[Desu] = @ \cup {pNum}]
            /\ threadNum' = fPost.thread_num
            /\ pc' = "primary thread"
            /\ UNCHANGED pNum
    /\ UNCHANGED <<disk, process, window, consPost>>
    /\ UNCHANGED aux

\* Mutant: a failed thread fetch is swallowed like a thread not found.
M_PrimaryThread_Swallow ==
    /\ pc = "primary thread"
    /\ \/ \E f \in Failures :
            /\ hist' = IF IsFatal(f) THEN [hist EXCEPT !.fatal = @ \cup {Desu}]
                       ELSE [hist EXCEPT !.threadNotFound = @ \cup {threadNum}]
            /\ downloaded' = Added(downloaded, start, end,
                                   Placeholder(threadNum, PostNotFound, runN), Desu)
            /\ pNum' = pNum + 1
            /\ pc' = "primary"
       \/ \E fThread \in ThreadAnswers(threadNum, Desu) :
            /\ downloaded' = AddAll(downloaded, start, end, fThread, Desu)
            /\ pNum' = pNum + 1
            /\ pc' = "primary"
            /\ UNCHANGED hist
    /\ UNCHANGED <<disk, process, window, threadNum, consPost>>
    /\ UNCHANGED aux

\* Lines 567-588: the post's thread from the primary host.
PrimaryThread ==
    /\ pc = "primary thread"
    /\ \/ \E f \in Failures :
            IF IsFatal(f)
            THEN /\ pc' = "aborted"
                 /\ hist' = [hist EXCEPT !.fatal = @ \cup {Desu}]
                 /\ UNCHANGED <<downloaded, pNum>>
            ELSE /\ downloaded' = Added(downloaded, start, end,
                                        Placeholder(threadNum, PostNotFound, runN), Desu)
                 /\ hist' = [hist EXCEPT !.threadNotFound = @ \cup {threadNum}]
                 /\ pNum' = pNum + 1
                 /\ pc' = "primary"
       \/ \E fThread \in ThreadAnswers(threadNum, Desu) :
            /\ downloaded' = AddAll(downloaded, start, end, fThread, Desu)
            /\ pNum' = pNum + 1
            /\ pc' = "primary"
            /\ UNCHANGED hist
    /\ UNCHANGED <<disk, process, window, threadNum, consPost>>
    /\ UNCHANGED aux

\* Lines 591-604 and 655-657: the count of missing numbers after the primary
\* pass decides whether the secondary pass runs.
PrimaryDone ==
    /\ pc = "primary" /\ pNum > end
    /\ IF \E n \in start..end : Missing(downloaded, n)
       THEN /\ RETRY_CNT_MAX' = 6
            /\ pNum' = start
            /\ pc' = "secondary"
       ELSE /\ pc' = "write cache"
            /\ UNCHANGED <<RETRY_CNT_MAX, pNum>>
    /\ hist' = [hist EXCEPT !.missingAfterPrimary =
                    \E n \in start..end : ~IsPost(downloaded[n])]
    /\ UNCHANGED <<disk, full, runN, window, downloaded, threadNum, consPost>>
    /\ UNCHANGED aux

\* Lines 606-609: the secondary pass skips the numbers that hold a real post.
SecondarySkip ==
    /\ pc = "secondary" /\ pNum <= end
    /\ ~Missing(downloaded, pNum)
    /\ pNum' = pNum + 1
    /\ UNCHANGED <<disk, pc, process, window, downloaded, threadNum, consPost, hist>>
    /\ UNCHANGED aux

\* Lines 610-619, and 641-643 for a failure: the catch ends the pass.
SecondaryPost ==
    /\ pc = "secondary" /\ pNum <= end
    /\ Missing(downloaded, pNum)
    /\ \/ \E f \in Failures :
            IF IsFatal(f)
            THEN /\ pc' = "write cache"
                 /\ hist' = [hist EXCEPT !.fatal = @ \cup {B4k},
                                         !.needless = @ \cup {n \in {pNum} : IsPost(downloaded[n])}]
                 /\ UNCHANGED <<downloaded, pNum, threadNum>>
            ELSE /\ hist' = [hist EXCEPT !.notFound[B4k] = @ \cup {pNum},
                                         !.asked[B4k] = @ \cup {pNum},
                                         !.needless = @ \cup {n \in {pNum} : IsPost(downloaded[n])}]
                 /\ pNum' = pNum + 1
                 /\ UNCHANGED <<pc, downloaded, threadNum>>
       \/ \E fPost \in PostAnswers(pNum, B4k) :
            /\ downloaded' = Added(downloaded, start, end, fPost, B4k)
            /\ hist' = [hist EXCEPT !.postFound[B4k] = @ \cup RealNums({fPost}),
                                    !.asked[B4k] = @ \cup {pNum},
                                    !.needless = @ \cup {n \in {pNum} : IsPost(downloaded[n])}]
            /\ threadNum' = fPost.thread_num
            /\ pc' = "secondary thread"
            /\ UNCHANGED pNum
    /\ UNCHANGED <<disk, process, window, consPost>>
    /\ UNCHANGED aux

\* Lines 620-639, and 641-643 for a failure.
SecondaryThread ==
    /\ pc = "secondary thread"
    /\ \/ \E f \in Failures :
            IF IsFatal(f)
            THEN /\ pc' = "write cache"
                 /\ hist' = [hist EXCEPT !.fatal = @ \cup {B4k}]
                 /\ UNCHANGED <<downloaded, pNum>>
            ELSE /\ pNum' = pNum + 1
                 /\ pc' = "secondary"
                 /\ UNCHANGED <<downloaded, hist>>
       \/ \E fThread \in ThreadAnswers(threadNum, B4k) :
            /\ downloaded' = AddAll(downloaded, start, end, fThread, B4k)
            /\ hist' = [hist EXCEPT !.reServed =
                            @ \cup (RealNums(fThread) \cap hist.postFound[B4k])]
            /\ pNum' = pNum + 1
            /\ pc' = "secondary"
    /\ UNCHANGED <<disk, process, window, threadNum, consPost>>
    /\ UNCHANGED aux

SecondaryDone ==
    /\ pc = "secondary" /\ pNum > end
    /\ pc' = "write cache"
    /\ UNCHANGED <<disk, process, window, locals, hist>>
    /\ UNCHANGED aux

\* Lines 659-672: the entries in ascending order; those that continue the
\* first one without a gap are the chunk, the real posts after the gap the
\* next cache.
Keys(dl) == {n \in Nums : dl[n].kind # "none"}

FirstKey(dl) == CHOOSE n \in Keys(dl) : \A m \in Keys(dl) : n <= m

LastCons(dl) ==
    CHOOSE n \in Keys(dl) :
        /\ n >= FirstKey(dl)
        /\ \A m \in FirstKey(dl)..n : m \in Keys(dl)
        /\ n + 1 \notin Keys(dl)

ConsPost(dl) ==
    IF Keys(dl) = {} THEN << >>
    ELSE [i \in 1..(LastCons(dl) - FirstKey(dl) + 1) |-> dl[FirstKey(dl) + i - 1]]

NextLookup(dl) ==
    IF Keys(dl) = {} THEN {}
    ELSE {dl[n] : n \in {m \in Keys(dl) : m > LastCons(dl) /\ ~IsMissing(dl[m])}}

\* Lines 659-676.
WriteCache ==
    /\ pc = "write cache"
    /\ consPost' = ConsPost(downloaded)
    /\ cacheFile' = NextLookup(downloaded)
    /\ pc' = "write chunk"
    /\ UNCHANGED <<manifestFile, chunkFile, written, process, window, downloaded,
                   pNum, threadNum, hist>>
    /\ UNCHANGED aux

ChunkName(recs) == <<runN, recs[1].num, recs[Len(recs)].num>>

\* Mutant: the manifest is saved before the chunk file is written.
M_BeginWriteChunk_ManifestFirst ==
    /\ pc = "write chunk"
    /\ IF consPost = << >>
       THEN /\ pc' = "aborted"
            /\ UNCHANGED <<chunkFile, manifestFile>>
       ELSE /\ chunkFile' = [state |-> "partial", name |-> ChunkName(consPost),
                             recs |-> consPost]
            /\ manifestFile' = [lastDownLoaded |-> consPost[Len(consPost)].num,
                                daily |-> Append(manifest.daily, ChunkName(consPost))]
            /\ pc' = "writing chunk"
    /\ UNCHANGED <<cacheFile, written, process, window, locals, hist>>
    /\ UNCHANGED aux

\* Lines 678-680, the write under way; with nothing to emit line 678 throws.
BeginWriteChunk ==
    /\ pc = "write chunk"
    /\ IF consPost = << >>
       THEN /\ pc' = "aborted"
            /\ UNCHANGED chunkFile
       ELSE /\ chunkFile' = [state |-> "partial", name |-> ChunkName(consPost),
                             recs |-> consPost]
            /\ pc' = "writing chunk"
    /\ UNCHANGED <<manifestFile, cacheFile, written, process, window, locals, hist>>
    /\ UNCHANGED aux

\* Line 680 completed.
FinishWriteChunk ==
    /\ pc = "writing chunk"
    /\ chunkFile' = [chunkFile EXCEPT !.state = "complete"]
    /\ written' = written \cup {chunkFile.name}
    /\ pc' = "save manifest"
    /\ UNCHANGED <<manifestFile, cacheFile, process, window, locals, hist>>
    /\ UNCHANGED aux

\* Lines 685-688, and main's loop (691-704): with --full another run follows
\* in the same process while downloadChunk returns true.
SaveManifest ==
    /\ pc = "save manifest"
    /\ manifest' = [lastDownLoaded |-> consPost[Len(consPost)].num,
                    daily |-> Append(manifest.daily, chunkFile.name)]
    /\ manifestFile' = manifest'
    /\ pc' = IF full /\ toDownload # newPosts THEN "start" ELSE "exit"
    /\ downloaded' = EmptyStore
    /\ consPost' = << >>
    /\ pNum' = 0 /\ threadNum' = 0
    /\ hist' = Over(hist)
    /\ UNCHANGED <<cacheFile, chunkFile, written, process, start, end, newPosts,
                   toDownload>>
    /\ UNCHANGED aux

\* The process is terminated while it waits for a fetch or a file write; its
\* memory is gone.
Terminate ==
    /\ pc \in {"primary", "primary thread", "secondary", "secondary thread",
               "write cache", "write chunk", "writing chunk", "save manifest"}
    /\ pc' = "killed"
    /\ manifest' = DEFAULT_MANIFEST
    /\ downloaded' = EmptyStore
    /\ consPost' = << >>
    /\ pNum' = 0 /\ threadNum' = 0
    /\ start' = 0 /\ end' = 0 /\ newPosts' = 0 /\ toDownload' = 0
    /\ hist' = Over(hist)
    /\ UNCHANGED <<disk, process>>
    /\ UNCHANGED aux

\* A new process: the module-level retry limit is initialized again.
Launch ==
    /\ pc \in {"exit", "aborted", "killed"}
    /\ runN < MaxRuns
    /\ pc' = "start"
    /\ full' \in BOOLEAN
    /\ RETRY_CNT_MAX' = 20
    /\ UNCHANGED <<disk, runN, window, locals, hist>>
    /\ UNCHANGED aux

Next ==
    \/ Start \/ PrimarySkip \/ PrimaryPost \/ PrimaryThread \/ PrimaryDone
    \/ SecondarySkip \/ SecondaryPost \/ SecondaryThread \/ SecondaryDone
    \/ WriteCache \/ BeginWriteChunk \/ FinishWriteChunk \/ SaveManifest
    \/ Terminate \/ Launch

Spec == Init /\ [][Next]_vars

(***************************************************************************)
(* addPost on its own.  The two programs' merge stores (the archive        *)
(* builder's in downloader.js, the upgrade scanner's in reCheck.js) under  *)
(* arbitrary sequences of addPost calls, each optionally repeated with the *)
(* same candidate object and source.                                       *)
(***************************************************************************)
MaxStore == 2
StoreNums == 1..MaxStore
MaxTime == 2

Builder == "addPost (downloader.js)"
Scanner == "addPost (reCheck.js)"

\* What a host's API puts into a post: a comment with a thread backlink to
\* the host itself, and any of the extra_data shapes.
RawExtraData == {EdAbsent, EdEmpty, EdOther}
RawPosts(site) ==
    {MkPost(n, sub, site, ThreadLink(site), ed) :
        n \in StoreNums, sub \in {"0", "1"}, ed \in RawExtraData}
Placeholders ==
    {Placeholder(n, reason, ts) :
        n \in StoreNums, reason \in {PostNotFound, OtherReason}, ts \in 1..MaxTime}

\* ffUtils setSourceAndDeDBfy.
setSourceAndDeDBfy(post, site) ==
    LET p1 == [post EXCEPT !.cp = DeDBfy(@, site)]
        ed == IF post.extra_data.shape = "absent" /\ site = Moe
              THEN EdEmpty ELSE post.extra_data
        isArr == ed.shape = "array"
    IN  IF site = Desu THEN p1
        ELSE [p1 EXCEPT !.extra_data =
                [shape |-> "array",
                 items |-> Append(IF isArr THEN ed.items ELSE << >>,
                                  SourceTag(site, ~isArr))]]

\* ffUtils fetchPost: the answered post, whatever its subnum.
fetchPost(answer, site) == setSourceAndDeDBfy(answer, site)

\* ffUtils fetchThread: ghost replies are deleted from the answer.
fetchThread(answer, site) ==
    {setSourceAndDeDBfy(p, site) : p \in {q \in answer : q.subnum = "0"}}

\* Mutant: the priority test is gone, every candidate is stored.
M_reCheckAddPost_Always(dl, post, site) ==
    Ret([dl EXCEPT ![post.num] = post], post, TRUE)

\* reCheck.js addPost.
reCheckAddPost(dl, post, site) ==
    LET existing == dl[post.num]
    IN  IF existing.kind = "none"
        THEN Ret([dl EXCEPT ![post.num] = post], post, TRUE)
        ELSE IF PRIORITY(site) >= getPriority(existing)
        THEN Ret([dl EXCEPT ![post.num] = post], post, TRUE)
        ELSE Ret(dl, post, FALSE)

\* The call under observation: site and candidate as passed, the entry of
\* the candidate's number before the call, the candidate object and the
\* store as the first call left them, whether the first call stored the
\* candidate, and how many times the call was made (1 or 2).  Calls build
\* up the store unobserved; any one of them may be the observed one, and
\* then only its repetition follows.
NoCall == [times |-> 0]
Call(site, cand, before, r) ==
    [times |-> 1, site |-> site, cand |-> cand, before |-> before,
     obj |-> r.post, stored |-> r.stored, once |-> r.downloaded]
Observed(observe, site, cand, before, r) ==
    IF observe THEN Call(site, cand, before, r) ELSE NoCall

InitAddPost ==
    /\ manifestFile = DEFAULT_MANIFEST /\ cacheFile = {} /\ chunkFile = NoChunk
    /\ written = {}
    /\ pc \in {Builder, Scanner}
    /\ full = FALSE /\ RETRY_CNT_MAX = 20 /\ runN = 0
    /\ manifest = DEFAULT_MANIFEST
    /\ start \in StoreNums /\ end \in start..MaxStore
    /\ pc = Scanner => start = 1 /\ end = MaxStore
    /\ newPosts = 0 /\ toDownload = 0
    /\ downloaded = [n \in StoreNums |-> NoEntry]
    /\ pNum = 0 /\ threadNum = 0 /\ consPost = << >>
    /\ hist = NoCall
    /\ server = Idle /\ frame = Idle

Rest == <<disk, pc, process, window, pNum, threadNum, consPost>>

\* downloader.js: addPost(post, site) with a host's post or a placeholder.
BuilderAddPost ==
    /\ pc = Builder /\ hist = NoCall
    /\ \E site \in {Desu, B4k} : \E post \in RawPosts(site) \cup Placeholders :
        \E observe \in BOOLEAN :
            LET r == addPost(downloaded, start, end, post, site)
            IN  /\ downloaded' = r.downloaded
                /\ hist' = Observed(observe, site, post, downloaded[post.num], r)
    /\ UNCHANGED Rest
    /\ UNCHANGED aux

\* The same call once more.  The candidate is the object the first call left;
\* when the first call stored it, the store's entry is that very object and
\* shows whatever the second call does to it.
BuilderAddPostAgain ==
    /\ pc = Builder /\ hist.times = 1
    /\ LET r == addPost(downloaded, start, end, hist.obj, hist.site)
       IN  /\ downloaded' = IF hist.stored
                            THEN [r.downloaded EXCEPT ![hist.cand.num] = r.post]
                            ELSE r.downloaded
           /\ hist' = [hist EXCEPT !.times = 2]
    /\ UNCHANGED Rest
    /\ UNCHANGED aux

\* reCheck.js 318-320, 348-350: addPost(fPost, site) with fetchPost's result.
ScannerAddFetchedPost ==
    /\ pc = Scanner /\ hist = NoCall
    /\ \E site \in Sites : \E answer \in RawPosts(site) :
        \E observe \in BOOLEAN :
            LET post == fetchPost(answer, site)
                r == reCheckAddPost(downloaded, post, site)
            IN  /\ downloaded' = r.downloaded
                /\ hist' = Observed(observe, site, post, downloaded[post.num], r)
    /\ UNCHANGED Rest
    /\ UNCHANGED aux

\* reCheck.js 355-364: addPost with a post of fetchThread's result.
ScannerAddThreadPost ==
    /\ pc = Scanner /\ hist = NoCall
    /\ \E site \in Sites : \E answer \in {{p} : p \in RawPosts(site)} :
        \E post \in fetchThread(answer, site) : \E observe \in BOOLEAN :
            LET r == reCheckAddPost(downloaded, post, site)
            IN  /\ downloaded' = r.downloaded
                /\ hist' = Observed(observe, site, post, downloaded[post.num], r)
    /\ UNCHANGED Rest
    /\ UNCHANGED aux

\* reCheck.js addPost does not touch the candidate.
ScannerAddPostAgain ==
    /\ pc = Scanner /\ hist.times = 1
    /\ downloaded' = reCheckAddPost(downloaded, hist.obj, hist.site).downloaded
    /\ hist' = [hist EXCEPT !.times = 2]
    /\ UNCHANGED Rest
    /\ UNCHANGED aux

NextAddPost ==
    \/ BuilderAddPost
    \/ BuilderAddPostAgain
    \/ ScannerAddFetchedPost
    \/ ScannerAddThreadPost
    \/ ScannerAddPostAgain

SpecAddPost == InitAddPost /\ [][NextAddPost]_vars

(***************************************************************************)
(* Properties of the archive builder.                                      *)
(***************************************************************************)
Running == {"primary", "primary thread", "secondary", "secondary thread",
            "write cache", "write chunk", "writing chunk"}
\* The chunk file is on disk (being written or written) and the run's
\* history is still at hand.
Emitting == pc \in {"writing chunk", "save manifest"}

ChunkNums == {chunkFile.recs[i].num : i \in 1..Len(chunkFile.recs)}
ChunkRec(n) == chunkFile.recs[CHOOSE i \in 1..Len(chunkFile.recs) : chunkFile.recs[i].num = n]
Checkpoint == hist.manifest0.lastDownLoaded

\* C1: the post numbers of an emitted chunk are exactly checkpoint+1,
\* checkpoint+2, ... in ascending order, whatever the hosts answer.
C1_ChunkStartsAfterCheckpoint ==
    chunkFile.state # "none" =>
        \A i \in 1..Len(chunkFile.recs) : chunkFile.recs[i].num = Checkpoint + i

\* C2: manifest.json and the manifest object change only once the chunk file
\* is completely written, to that chunk's name and last number; a run that is
\* terminated earlier leaves manifest.json as it was at run start, so
\* lastDownLoaded is always the last number of a completely written chunk or
\* the initial value.
C2_ManifestOnlyAfterChunk ==
    /\ manifestFile # hist.manifest0 =>
        /\ chunkFile.state = "complete"
        /\ manifestFile.lastDownLoaded = chunkFile.recs[Len(chunkFile.recs)].num
        /\ manifestFile.daily = Append(hist.manifest0.daily, chunkFile.name)
    /\ pc \in Running \cup {"save manifest"} => manifest = hist.manifest0
    /\ IF manifestFile.daily = << >>
       THEN manifestFile.lastDownLoaded = DEFAULT_MANIFEST.lastDownLoaded
       ELSE LET name == manifestFile.daily[Len(manifestFile.daily)]
            IN  name \in written /\ manifestFile.lastDownLoaded = name[3]

\* A second run is terminated while it writes its chunk file.
C2_Witness ==
    /\ pc = "killed" /\ chunkFile.state = "partial"
    /\ Len(manifestFile.daily) = 1
    /\ manifestFile = hist.manifest0

\* C3 as stated: a fatal fetch failure against any host leaves no chunk file
\* and the manifest unchanged.
C3_AnyFatalAborts ==
    hist.fatal # {} => chunkFile.state = "none" /\ manifestFile = hist.manifest0

\* C3 as amended: a fatal fetch failure against the primary host aborts the
\* run with no chunk file and the manifest unchanged; one against the
\* secondary host ends the secondary pass only, and the run goes on to its
\* writes.
C3_PrimaryFatalAborts ==
    /\ Desu \in hist.fatal =>
        /\ pc \in {"aborted", "start"}
        /\ chunkFile.state = "none"
        /\ manifestFile = hist.manifest0
    /\ B4k \in hist.fatal =>
        /\ pc \notin {"primary", "primary thread", "secondary", "secondary thread"}
        /\ pc = "aborted" => consPost = << >>

\* The primary host fails after posts were merged.
C3_Witness ==
    /\ pc = "aborted" /\ Desu \in hist.fatal
    /\ \E n \in Nums : IsPost(downloaded[n])

\* C4 as stated: every placeholder of an emitted chunk stands for a number
\* that every host was asked for and answered not-found.
C4_PlaceholderAllHostsNotFound ==
    Emitting =>
        \A n \in ChunkNums : IsMissing(ChunkRec(n)) =>
            n \in hist.notFound[Desu] /\ n \in hist.notFound[B4k]

\* C4 as amended: every placeholder of an emitted chunk stands for a number
\* that the primary host answered not-found (to the post request, or to the
\* thread request with that number as thread root) and that no host's post
\* request supplied; the secondary host was asked for it unless a fatal
\* failure ended its pass.
C4_PlaceholderPrimaryNotFound ==
    Emitting =>
        \A n \in ChunkNums : IsMissing(ChunkRec(n)) =>
            /\ n \in hist.notFound[Desu] \cup hist.threadNotFound
            /\ n \notin hist.postFound[Desu] \cup hist.postFound[B4k]
            /\ B4k \notin hist.fatal => n \in hist.asked[B4k]

\* A placeholder is emitted although the secondary pass was cut short.
C4_Witness ==
    /\ pc = "save manifest" /\ B4k \in hist.fatal
    /\ \E n \in ChunkNums : IsMissing(ChunkRec(n)) /\ n \notin hist.asked[B4k]

\* C6: a window number the primary host answered not-found and the secondary
\* host's post request supplied is written out (in the chunk, or in the cache
\* when a gap precedes it) as the secondary host's post, with the secondary
\* host as effective source and exactly one provenance entry, its tag.
WrittenRec(n) ==
    IF n \in ChunkNums THEN ChunkRec(n) ELSE CHOOSE p \in cacheFile : p.num = n

C6_SecondaryOnlyPost ==
    Emitting =>
        \A n \in hist.notFound[Desu] \cap hist.postFound[B4k] :
            /\ n \in ChunkNums \/ \E p \in cacheFile : p.num = n
            /\ IsPost(WrittenRec(n))
            /\ WrittenRec(n).origin = B4k
            /\ getSource(WrittenRec(n)) = B4k
            /\ WrittenRec(n).extra_data.shape = "array"
            /\ Len(WrittenRec(n).extra_data.items) = 1
            /\ WrittenRec(n).extra_data.items[1].source = B4k

\* Such a number is emitted after the secondary host's thread held it again.
C6_Witness ==
    /\ pc = "save manifest"
    /\ \E n \in hist.notFound[Desu] \cap hist.postFound[B4k] \cap hist.reServed :
        n \in ChunkNums

(***************************************************************************)
(* Properties of addPost.                                                  *)
(***************************************************************************)
Called == hist.times >= 1
CalledOnce == hist.times = 1
Entry == downloaded[hist.cand.num]

\* The candidate passes the builder's ghost and window filters (lines
\* 491-503); the scanner has none.
PassesFilters ==
    pc = Builder =>
        /\ ~IsGhost(hist.cand)
        /\ hist.cand.num >= start
        /\ hist.site # Desu => hist.cand.num <= end

\* C5: in both stores, over any sequence of addPost calls, a stored real
\* post stays a real post and neither the priority of its effective source
\* nor the priority of the host that served it ever decreases; a real
\* candidate (not a ghost reply) turned down in favour of a stored real post
\* has a source of priority at most that of the stored post.
C5_PriorityNeverDecreases ==
    Called /\ IsPost(hist.before) =>
        /\ IsPost(Entry)
        /\ getPriority(Entry) >= getPriority(hist.before)
        /\ PRIORITY(Entry.origin) >= PRIORITY(hist.before.origin)
        /\ IsPost(hist.cand) /\ ~IsGhost(hist.cand) /\ ~hist.stored =>
                getPriority(Entry) >= PRIORITY(hist.site)

\* The scanner turns down a candidate of a lower-priority host.
C5_Witness ==
    /\ pc = Scanner /\ CalledOnce
    /\ IsPost(hist.before) /\ ~hist.stored
    /\ PRIORITY(hist.site) < getPriority(hist.before)
    /\ Entry = hist.before

\* C7: no ghost reply (subnum other than "0") is ever in a merge store,
\* whatever the hosts answer to thread and post requests.
C7_NoGhostStored ==
    \A n \in DOMAIN downloaded : ~IsGhost(downloaded[n])

\* C8: calling addPost a second time with the same candidate and source
\* leaves the store, provenance lists included, as the first call left it.
C8_AddPostIdempotent ==
    hist.times = 2 => downloaded = hist.once

\* The builder's call that tagged a secondary host's post onto a placeholder
\* is repeated.
C8_Witness ==
    /\ pc = Builder /\ hist.times = 2
    /\ hist.site = B4k /\ IsPost(hist.cand) /\ IsMissing(hist.before)
    /\ hist.stored /\ getSource(Entry) = B4k

\* C9 as stated: with a real post stored and a real candidate that passed
\* the filters, addPost overwrites exactly when priority(source) >=
\* priority(existing), in both programs.
C9_OverwriteIffPriority ==
    CalledOnce /\ IsPost(hist.before) /\ IsPost(hist.cand) /\ PassesFilters =>
        (hist.stored <=> PRIORITY(hist.site) >= getPriority(hist.before))

\* C9 as amended: with a real post stored and a real candidate that passed
\* the filters, the builder's addPost overwrites exactly when the candidate
\* comes from the primary host (a secondary host's candidate never
\* overwrites, not even that host's own post), and the scanner's addPost
\* overwrites exactly when priority(source) >= priority(existing), equal
\* priority included.
C9_OverwriteRule ==
    CalledOnce /\ IsPost(hist.before) /\ IsPost(hist.cand) /\ PassesFilters =>
        /\ pc = Builder => (hist.stored <=> hist.site = Desu)
        /\ pc = Scanner =>
            (hist.stored <=> PRIORITY(hist.site) >= getPriority(hist.before))
        /\ Entry = IF hist.stored THEN hist.obj ELSE hist.before

\* The builder turns down the secondary host's candidate for a number that
\* holds that host's own post.
C9_Witness ==
    /\ pc = Builder /\ CalledOnce /\ PassesFilters
    /\ hist.site = B4k /\ IsPost(hist.cand)
    /\ IsPost(hist.before) /\ getSource(hist.before) = B4k
    /\ ~hist.stored

\* C10: a placeholder candidate is stored only when its number has no entry
\* or holds a placeholder with another reason; a real post or a placeholder
\* with the same reason stays as it is.
C10_PlaceholderCandidate ==
    CalledOnce /\ pc = Builder /\ IsMissing(hist.cand) =>
        /\ hist.stored =>
            \/ hist.before = NoEntry
            \/ IsMissing(hist.before) /\ hist.before.exception # hist.cand.exception
        /\ Entry = IF hist.stored THEN hist.cand ELSE hist.before
        /\ IsPost(hist.before) => Entry = hist.before
        /\ IsMissing(hist.before) /\ hist.before.exception = hist.cand.exception =>
                Entry = hist.before

\* A placeholder replaces a placeholder with another reason; and one with
\* the same reason but a later time is turned down.
C10_Witness ==
    /\ CalledOnce /\ pc = Builder /\ IsMissing(hist.cand)
    /\ IsMissing(hist.before) /\ hist.before.exception # hist.cand.exception
    /\ hist.stored /\ Entry = hist.cand

\* C11: at every point of a run every key of the merge store is at least the
\* window start, and every entry above the window end is a post the primary
\* host served (no placeholder, no other host's post, no source tag).
C11_StoreWithinWindow ==
    pc \in Running =>
        \A n \in Nums : downloaded[n] # NoEntry =>
            /\ n >= start
            /\ n > end =>
                /\ IsPost(downloaded[n])
                /\ downloaded[n].origin = Desu
                /\ getSource(downloaded[n]) = Desu

\* In a later window the secondary host has answered a thread, and the store
\* holds a post above the window end.
C11_Witness ==
    /\ pc = "secondary" /\ start > 1
    /\ hist.postFound[B4k] # {}
    /\ \E n \in Nums : n > end /\ IsPost(downloaded[n])
    /\ \E n \in Nums : n < start

(***************************************************************************)
(* getSource and getPriority on their own, next to the source that         *)
(* spliceMissing.js works out for the same post: every provenance list of  *)
(* up to MaxTags source tags, and the two values that are no list.         *)
(***************************************************************************)
MaxTags == 3

TagEntries == {SourceTag(site, w) : site \in {B4k, Moe}, w \in BOOLEAN}

RECURSIVE TagLists(_)
TagLists(len) ==
    IF len = 0 THEN {<< >>}
    ELSE LET shorter == TagLists(len - 1)
         IN  shorter \cup {Append(l, e) : l \in shorter, e \in TagEntries}

TaggedPosts ==
    {MkPost(1, "0", Desu, Plain, ed) :
        ed \in {EdAbsent, EdOther}
               \cup {[shape |-> "array", items |-> l] : l \in TagLists(MaxTags)}}

\* spliceMissing.js 130-143: the source is read off the last entry; "" when
\* there is none.
spliceSource(post) ==
    LET extraData == IF post.extra_data.shape = "array"
                     THEN post.extra_data.items ELSE << >>
        source == IF Len(extraData) > 0
                  THEN extraData[Len(extraData)].source ELSE ""
    IN  IF source # "" /\ source # Moe /\ source # B4k THEN "" ELSE source

InitSource ==
    /\ manifestFile = DEFAULT_MANIFEST /\ cacheFile = {} /\ chunkFile = NoChunk
    /\ written = {}
    /\ pc = "source"
    /\ full = FALSE /\ RETRY_CNT_MAX = 20 /\ runN = 0
    /\ manifest = DEFAULT_MANIFEST
    /\ start = 0 /\ end = 0 /\ newPosts = 0 /\ toDownload = 0
    /\ downloaded = EmptyStore
    /\ pNum = 0 /\ threadNum = 0 /\ consPost = << >>
    /\ \E post \in TaggedPosts : hist = [by |-> "nobody", post |-> post]
    /\ server = Idle /\ frame = Idle

\* ffUtils getSource and getPriority of the post.
GetSource ==
    /\ pc = "source" /\ hist.by = "nobody"
    /\ hist' = [by |-> "getSource", post |-> hist.post,
                source |-> getSource(hist.post),
                priority |-> getPriority(hist.post)]
    /\ UNCHANGED <<disk, pc, process, window, locals>>
    /\ UNCHANGED aux

\* spliceMissing.js main, the source it de-DBfies the post for.
SpliceSource ==
    /\ pc = "source" /\ hist.by = "nobody"
    /\ hist' = [by |-> "spliceMissing", post |-> hist.post,
                source |-> spliceSource(hist.post)]
    /\ UNCHANGED <<disk, pc, process, window, locals>>
    /\ UNCHANGED aux

NextSource ==
    \/ GetSource
    \/ SpliceSource

SpecSource == InitSource /\ [][NextSource]_vars

\* The last entry of the provenance list, the primary host when the list is
\* empty or no list.
LastSource(post) ==
    IF post.extra_data.shape = "array" /\ post.extra_data.items # << >>
    THEN post.extra_data.items[Len(post.extra_data.items)].source
    ELSE Desu

\* C12: getSource returns the source of the last entry of the provenance
\* list (the primary host for an empty or absent list), and getPriority that
\* source's priority, also for a list of several tags.
C12_LastTagDecides ==
    hist.by = "getSource" =>
        /\ hist.source = LastSource(hist.post)
        /\ hist.priority = PRIORITY(LastSource(hist.post))

\* C13: the chunks listed in manifest.json's daily, in order, cover
\* contiguous ranges (each chunk's first number is the previous chunk's last
\* number + 1), and lastDownLoaded is the last number of the last chunk.
C13_DailyContiguous ==
    LET daily == manifestFile.daily
    IN  /\ \A i \in 2..Len(daily) : daily[i][2] = daily[i - 1][3] + 1
        /\ daily # << >> => manifestFile.lastDownLoaded = daily[Len(daily)][3]

(***************************************************************************)
(* The thread resolver on its own: fetchThreadInner (downloader.js:        *)
(* fetchThread), fetchThreadSearch and fetchThreadChunked against a host   *)
(* that holds one thread.  server is the host: its name, the thread's      *)
(* posts in the order the search endpoint serves them (ascending time) and *)
(* the search endpoint's result cap.  frame holds the locals of the        *)
(* function under way, pc its name.  The host answers every request as it  *)
(* likes: with an error, or with the page asked for.                       *)
(***************************************************************************)
MaxThread == 3
MaxStamp == 2
MaxCap == 2
MaxPages == 2
PageSize == 1

ThreadNums == 1..MaxThread

FFPost(num, subnum, timestamp, rev) ==
    [num |-> num, subnum |-> subnum, timestamp |-> timestamp, rev |-> rev]

\* The threads a host may hold: post i has number i, is a ghost or not, and
\* the timestamps do not decrease.
Threads ==
    UNION {{t \in [1..len -> {FFPost(n, sub, ts, 0) :
                                  n \in ThreadNums, sub \in {0, 1},
                                  ts \in 1..MaxStamp}] :
               /\ \A i \in 1..len : t[i].num = i
               /\ \A i \in 2..len : t[i - 1].timestamp <= t[i].timestamp} :
           len \in 0..MaxThread}

Hosts == [site : Sites, thread : Threads, max_results : 1..MaxCap]

\* ffDate: the cursor the search URL carries, a wall-clock time to the second.
NoStart == [given |-> FALSE, date |-> 0]
ffDate(ts) == [given |-> TRUE, date |-> ts]

EmptyMap == [n \in ThreadNums |-> NoEntry]

\* Variants of SetPosts: one keeps ghosts, one keeps the first occurrence.
M_SetPosts_Ghosts(uniquePostsMap, posts) ==
    [n \in ThreadNums |->
        IF \E p \in posts : p.num = n
        THEN CHOOSE p \in posts : p.num = n
        ELSE uniquePostsMap[n]]

M_SetPosts_KeepFirst(uniquePostsMap, posts) ==
    [n \in ThreadNums |->
        IF uniquePostsMap[n] = NoEntry /\ \E p \in posts : p.num = n /\ p.subnum = 0
        THEN CHOOSE p \in posts : p.num = n /\ p.subnum = 0
        ELSE uniquePostsMap[n]]

\* uniquePostsMap.set for every non-ghost post of a page.
SetPosts(uniquePostsMap, posts) ==
    [n \in ThreadNums |->
        IF \E p \in posts : p.num = n /\ p.subnum = 0
        THEN CHOOSE p \in posts : p.num = n /\ p.subnum = 0
        ELSE uniquePostsMap[n]]

\* The thread entry both strategies build from the map.
ThreadResult(uniquePostsMap, tnum) ==
    LET stored == {uniquePostsMap[n] : n \in ThreadNums} \ {NoEntry}
    IN  [kind |-> "thread",
         op |-> {p \in stored : p.num = tnum},
         posts |-> {p \in stored : p.num # tnum}]

ErrorResult(error) == [kind |-> "error", error |-> error]

Range(seq) == {seq[i] : i \in 1..Len(seq)}

\* What the direct thread endpoint may answer.
DirectAnswers(site) ==
    {"thread", "500", "Thread not found.", "other error", "fetch failed"}
        \cup (IF site = Moe THEN {"403"} ELSE {})

\* What the search endpoint may answer to a page request: an error, or the
\* page asked for of the posts not older than the cursor, of which it serves
\* no more than max_results.
SearchErrors(site) ==
    {"The search backend is currently unavailable.",
     "The search backend returned an error.", "other error", "fetch failed"}
        \cup (IF site = Moe THEN {"Captcha required."} ELSE {})

SearchPage(host, page, cursor) ==
    LET found == SelectSeq(host.thread,
                           LAMBDA p : ~cursor.given \/ p.timestamp >= cursor.date)
        served == SubSeq(found, 1, Min(Len(found), host.max_results))
        first == (page - 1) * PageSize + 1
        last == Min(page * PageSize, Len(served))
    IN  IF first > last
        THEN [error |-> "No results found."]
        ELSE [error |-> "none",
              meta |-> [total_found |-> Len(found),
                        max_results |-> host.max_results],
              posts |-> SubSeq(served, first, last)]

SearchAnswers(host, page, cursor) ==
    {[error |-> e] : e \in SearchErrors(host.site)}
        \cup {SearchPage(host, page, cursor)}

\* What the chunk endpoint may answer to the request for page chunk: an
\* error (the empty one says there are no more pages), or some of the
\* thread's posts as they are at that time.  It holds no more than MaxPages
\* pages.
ChunkAnswers(host, chunk) ==
    {[error |-> e] : e \in {"", "other error", "fetch failed"}
                            \cup (IF host.site = Moe THEN {"Captcha required."}
                                                     ELSE {})}
        \cup (IF chunk > MaxPages THEN {}
              ELSE {[error |-> "none",
                     posts |-> {FFPost(p.num, p.subnum, p.timestamp, chunk) :
                                    p \in some}] :
                        some \in SUBSET Range(host.thread) \ {{}}})

\* What the resolver did so far, read by the properties only:
\*   direct       the direct endpoint's answer
\*   search       the <<page, cursor>> pairs requested of the search endpoint
\*   unavailable  the search backend reported itself unavailable
\*   chunk        the pages requested of the chunk endpoint, in order
\*   ended        the chunk endpoint answered the empty error
\*   served       the non-ghost posts the search pages held
\*   latest       per number, the page of the chunk endpoint that held it
\*                as a non-ghost post last (0: none)
\*   again        a chunk page held a non-ghost post the map already held
\*   restarts     restarts of the search from page 1
\*   reServed     a search page held a non-ghost post seen before
NoRequests ==
    [direct |-> "none", search |-> {}, unavailable |-> FALSE,
     chunk |-> << >>, ended |-> FALSE, again |-> FALSE, served |-> {},
     latest |-> [n \in ThreadNums |-> 0], restarts |-> 0, reServed |-> FALSE]

SearchFrame(useChunkedFallback) ==
    [useChunkedFallback |-> useChunkedFallback, uniquePostsMap |-> EmptyMap,
     start |-> NoStart, page |-> 1, postsThisRound |-> 0, maxTS |-> 0]

ChunkedFrame == [uniquePostsMap |-> EmptyMap, start |-> 1]

Returned(result) == [result |-> result]

InitResolver ==
    /\ manifestFile = DEFAULT_MANIFEST /\ cacheFile = {} /\ chunkFile = NoChunk
    /\ written = {}
    /\ pc = "fetchThreadInner"
    /\ full = FALSE /\ RETRY_CNT_MAX = 20 /\ runN = 0
    /\ manifest = DEFAULT_MANIFEST
    /\ start = 0 /\ end = 0 /\ newPosts = 0 /\ toDownload = 0
    /\ downloaded = EmptyStore
    /\ pNum = 0 /\ threadNum = 1
    /\ consPost = << >>
    /\ hist = NoRequests
    /\ server \in Hosts
    /\ frame = Idle

Outside == <<disk, process, window, locals, server>>

\* Variants of FetchThreadInner: one goes to the chunk endpoint at once on
\* 500, one asks for the chunked fallback also after "Thread not found.".
M_FetchThreadInner_Chunked ==
    /\ pc = "fetchThreadInner"
    /\ \E resp \in DirectAnswers(server.site) :
        /\ hist' = [hist EXCEPT !.direct = resp]
        /\ CASE resp = "fetch failed" ->
                    pc' = "thrown" /\ frame' = Idle
             [] resp = "403" ->
                    /\ pc' = "returned"
                    /\ frame' = Returned(ErrorResult("Captcha required."))
             [] resp = "500" ->
                    pc' = "fetchThreadChunked" /\ frame' = ChunkedFrame
             [] resp = "Thread not found." ->
                    pc' = "fetchThreadSearch" /\ frame' = SearchFrame(FALSE)
             [] resp = "other error" ->
                    pc' = "returned" /\ frame' = Returned(ErrorResult(resp))
             [] resp = "thread" ->
                    /\ pc' = "returned"
                    /\ frame' = Returned([kind |-> "thread",
                                          op |-> {p \in Range(server.thread) : p.num = threadNum},
                                          posts |-> {p \in Range(server.thread) : p.num # threadNum}])
    /\ UNCHANGED Outside

M_FetchThreadInner_Fallback ==
    /\ pc = "fetchThreadInner"
    /\ \E resp \in DirectAnswers(server.site) :
        /\ hist' = [hist EXCEPT !.direct = resp]
        /\ CASE resp = "fetch failed" ->
                    pc' = "thrown" /\ frame' = Idle
             [] resp = "403" ->
                    /\ pc' = "returned"
                    /\ frame' = Returned(ErrorResult("Captcha required."))
             [] resp = "500" ->
                    pc' = "fetchThreadSearch" /\ frame' = SearchFrame(TRUE)
             [] resp = "Thread not found." ->
                    pc' = "fetchThreadSearch" /\ frame' = SearchFrame(TRUE)
             [] resp = "other error" ->
                    pc' = "returned" /\ frame' = Returned(ErrorResult(resp))
             [] resp = "thread" ->
                    /\ pc' = "returned"
                    /\ frame' = Returned([kind |-> "thread",
                                          op |-> {p \in Range(server.thread) : p.num = threadNum},
                                          posts |-> {p \in Range(server.thread) : p.num # threadNum}])
    /\ UNCHANGED Outside

\* fetchThreadInner (fetchThread of downloader.js, which has no 403 case and
\* is never asked for archived.moe): the direct request and what follows it.
FetchThreadInner ==
    /\ pc = "fetchThreadInner"
    /\ \E resp \in DirectAnswers(server.site) :
        /\ hist' = [hist EXCEPT !.direct = resp]
        /\ CASE resp = "fetch failed" ->
                    pc' = "thrown" /\ frame' = Idle
             [] resp = "403" ->
                    /\ pc' = "returned"
                    /\ frame' = Returned(ErrorResult("Captcha required."))
             [] resp = "500" ->
                    pc' = "fetchThreadSearch" /\ frame' = SearchFrame(TRUE)
             [] resp = "Thread not found." ->
                    pc' = "fetchThreadSearch" /\ frame' = SearchFrame(FALSE)
             [] resp = "other error" ->
                    pc' = "returned" /\ frame' = Returned(ErrorResult(resp))
             [] resp = "thread" ->
                    /\ pc' = "returned"
                    /\ frame' = Returned([kind |-> "thread",
                                          op |-> {p \in Range(server.thread) : p.num = threadNum},
                                          posts |-> {p \in Range(server.thread) : p.num # threadNum}])
    /\ UNCHANGED Outside

\* One round of fetchThreadSearch's loop: the page request and what the code
\* does with the answer.
SearchRound(res) ==
    LET posts == Range(res.posts)
        real == {p \in posts : p.subnum = 0}
        postsThisRound == frame.postsThisRound + Len(res.posts)
        uniquePostsMap == SetPosts(frame.uniquePostsMap, posts)
        maxTS == IF real = {} THEN frame.maxTS
                 ELSE Max(frame.maxTS,
                          CHOOSE ts \in {p.timestamp : p \in real} :
                              \A p \in real : p.timestamp <= ts)
        seenBefore == \E p \in real : p.num \in hist.served
    IN  IF postsThisRound >= res.meta.total_found
        THEN /\ pc' = "returned"
             /\ frame' = Returned(ThreadResult(uniquePostsMap, threadNum))
             /\ hist' = [hist EXCEPT
                            !.search = @ \cup {<<frame.page, frame.start>>},
                            !.served = @ \cup {p.num : p \in real},
                            !.reServed = @ \/ seenBefore]
        ELSE /\ pc' = "fetchThreadSearch"
             /\ IF postsThisRound >= res.meta.max_results
                THEN /\ frame' = [frame EXCEPT
                                     !.uniquePostsMap = uniquePostsMap,
                                     !.maxTS = maxTS,
                                     !.start = ffDate(maxTS),
                                     !.postsThisRound = 0,
                                     !.page = 1]
                     /\ hist' = [hist EXCEPT
                                    !.search = @ \cup {<<frame.page, frame.start>>},
                                    !.served = @ \cup {p.num : p \in real},
                                    !.reServed = @ \/ seenBefore,
                                    !.restarts = Min(@ + 1, MaxThread)]
                ELSE /\ frame' = [frame EXCEPT
                                     !.uniquePostsMap = uniquePostsMap,
                                     !.maxTS = maxTS,
                                     !.postsThisRound = postsThisRound,
                                     !.page = @ + 1]
                     /\ hist' = [hist EXCEPT
                                    !.search = @ \cup {<<frame.page, frame.start>>},
                                    !.served = @ \cup {p.num : p \in real},
                                    !.reServed = @ \/ seenBefore]

FetchThreadSearch ==
    /\ pc = "fetchThreadSearch"
    /\ \E res \in SearchAnswers(server, frame.page, frame.start) :
        CASE res.error = "fetch failed" ->
                /\ pc' = "thrown" /\ frame' = Idle
                /\ hist' = [hist EXCEPT !.search = @ \cup {<<frame.page, frame.start>>}]
          [] res.error = "No results found." ->
                /\ pc' = "returned"
                /\ frame' = Returned(ErrorResult("Thread not found."))
                /\ hist' = [hist EXCEPT !.search = @ \cup {<<frame.page, frame.start>>}]
          [] res.error \in {"The search backend is currently unavailable.",
                            "The search backend returned an error."} ->
                /\ hist' = [hist EXCEPT
                               !.search = @ \cup {<<frame.page, frame.start>>},
                               !.unavailable = TRUE]
                /\ IF frame.useChunkedFallback
                   THEN pc' = "fetchThreadChunked" /\ frame' = ChunkedFrame
                   ELSE /\ pc' = "returned"
                        /\ frame' = Returned(ErrorResult("Thread not found."))
          [] res.error \in {"other error", "Captcha required."} ->
                /\ pc' = "returned"
                /\ frame' = Returned(ErrorResult(res.error))
                /\ hist' = [hist EXCEPT !.search = @ \cup {<<frame.page, frame.start>>}]
          [] res.error = "none" -> SearchRound(res)
    /\ UNCHANGED Outside

\* One round of fetchThreadChunked's loop.
FetchThreadChunked ==
    /\ pc = "fetchThreadChunked"
    /\ \E res \in ChunkAnswers(server, frame.start) :
        CASE res.error = "fetch failed" ->
                /\ pc' = "thrown" /\ frame' = Idle
                /\ hist' = [hist EXCEPT !.chunk = Append(@, frame.start)]
          [] res.error = "" ->
                /\ pc' = "returned"
                /\ frame' = Returned(ThreadResult(frame.uniquePostsMap, threadNum))
                /\ hist' = [hist EXCEPT !.chunk = Append(@, frame.start),
                                        !.ended = TRUE]
          [] res.error \in {"other error", "Captcha required."} ->
                /\ pc' = "returned"
                /\ frame' = Returned(ErrorResult(res.error))
                /\ hist' = [hist EXCEPT !.chunk = Append(@, frame.start)]
          [] res.error = "none" ->
                /\ pc' = "fetchThreadChunked"
                /\ frame' = [frame EXCEPT
                                !.uniquePostsMap = SetPosts(@, res.posts),
                                !.start = @ + 1]
                /\ hist' = [hist EXCEPT
                               !.chunk = Append(@, frame.start),
                               !.again = @ \/ \E p \in res.posts :
                                                /\ p.subnum = 0
                                                /\ frame.uniquePostsMap[p.num] # NoEntry,
                               !.latest = [n \in ThreadNums |->
                                              IF \E p \in res.posts : p.num = n /\ p.subnum = 0
                                              THEN frame.start ELSE @[n]]]
    /\ UNCHANGED Outside

NextResolver ==
    \/ FetchThreadInner
    \/ FetchThreadSearch
    \/ FetchThreadChunked

SpecResolver == InitResolver /\ [][NextResolver]_vars

\* The resolver keeps running until it returns or throws.
FairSpecResolver == SpecResolver /\ WF_vars(NextResolver)

(***************************************************************************)
(* myFetch on its own, in both programs: the archive builder's             *)
(* (downloader.js) and the one the upgrade scanner uses (ffUtils.js).      *)
(* frame holds the call's parameters and locals and the time since the     *)
(* last request to the host went out; times are in ms.  A status of 0      *)
(* stands for a request that failed without a response.                    *)
(***************************************************************************)
RETRY_EB_MAX == 30000

Programs == {"downloader.js", "ffUtils.js"}

\* setFetchSite's settings (ffUtils.js); the archive builder has the one
\* module-level limit, lowered to 6 by --full, and no spacing.
RetryLimits(program, site) ==
    IF program = "downloader.js" THEN {20, 6}
    ELSE IF site = Desu THEN {20} ELSE {10}

MIN_FETCH_INTERVAL(program, site) ==
    IF program = "ffUtils.js" /\ site = Moe THEN 2600 ELSE 0

\* Variant: no caller allows a 403.
M_AllowedStatuses_No403(program, site) == {{}, {500}}

\* The statuses the callers allow besides the 2xx ones.
AllowedStatuses(program, site) ==
    IF program = "downloader.js" THEN {{}, {500}}
    ELSE IF site = Moe THEN {{403}, {500, 403}} ELSE {{}, {500}}

Statuses == {0, 200, 403, 404, 429, 500}
Durations == {0, 3000}

Acceptable(allowErrors, status) == status = 200 \/ status \in allowErrors

M_Exhausted_OneMore(retryN) == retryN > RETRY_CNT_MAX

Exhausted(retryN) == retryN >= RETRY_CNT_MAX

Backoff(program, retryN, status) ==
    LET tmr == IF program = "ffUtils.js" /\ status = 429 THEN 16000 ELSE 0
    IN  Min(2 ^ retryN * 500, RETRY_EB_MAX) + tmr

\* What the call did so far, read by the properties only:
\*   requests  requests sent
\*   failures  of these, failed or answered with a status not acceptable
\*   status    the status of the last such attempt
\*   wait      the spacing delay before the last request
\*   answer    the status of the last attempt
\*   program, site, allowErrors  the program, the host asked and the
\*             statuses the caller allows
NoFetch(program, site, allowErrors) ==
    [requests |-> 0, failures |-> 0, status |-> 200, wait |-> 0,
     answer |-> 200, program |-> program, site |-> site,
     allowErrors |-> allowErrors]

InitFetch ==
    /\ manifestFile = DEFAULT_MANIFEST /\ cacheFile = {} /\ chunkFile = NoChunk
    /\ written = {}
    /\ pc = "myFetch"
    /\ full = FALSE /\ runN = 0
    /\ manifest = DEFAULT_MANIFEST
    /\ start = 0 /\ end = 0 /\ newPosts = 0 /\ toDownload = 0
    /\ downloaded = EmptyStore
    /\ pNum = 0 /\ threadNum = 0
    /\ consPost = << >>
    /\ server = Idle
    /\ \E program \in Programs, site \in Sites, since \in Durations :
        /\ program = "downloader.js" => site # Moe
        /\ RETRY_CNT_MAX \in RetryLimits(program, site)
        /\ \E allowErrors \in AllowedStatuses(program, site) :
            /\ frame = [program |-> program, site |-> site,
                        allowErrors |-> allowErrors, retryN |-> 0,
                        since |-> since, backoff |-> 0]
            /\ hist = NoFetch(program, site, allowErrors)

\* One call of myFetch up to its return, its throw or the start of its
\* backoff: the spacing delay, the request, and the catch block.
MyFetch ==
    /\ pc = "myFetch"
    /\ \E status \in Statuses, took \in Durations :
        LET wait == Max(0, MIN_FETCH_INTERVAL(frame.program, frame.site) - frame.since)
            backoff == Backoff(frame.program, frame.retryN, status)
        IN  IF Acceptable(frame.allowErrors, status)
            THEN /\ pc' = "returned"
                 /\ frame' = Returned([kind |-> "response", status |-> status])
                 /\ hist' = [hist EXCEPT !.requests = @ + 1, !.wait = wait,
                                         !.answer = status]
            ELSE /\ hist' = [hist EXCEPT !.requests = @ + 1, !.wait = wait,
                                         !.failures = @ + 1, !.status = status,
                                         !.answer = status]
                 /\ IF Exhausted(frame.retryN)
                    THEN pc' = "thrown" /\ frame' = Idle
                    ELSE /\ pc' = "backoff"
                         /\ frame' = [frame EXCEPT !.backoff = backoff,
                                                   !.since = took + backoff]
    /\ UNCHANGED <<disk, process, window, locals, server>>

\* The backoff is over: myFetch calls itself with retryN + 1.
MyFetchRetry ==
    /\ pc = "backoff"
    /\ pc' = "myFetch"
    /\ frame' = [frame EXCEPT !.retryN = @ + 1]
    /\ UNCHANGED <<disk, process, window, locals, server, hist>>

\* What the callers of ffUtils.js do with the response first: a 403 becomes
\* the error value, anything else is parsed (downloader.js parses at once).
ReadResponse ==
    /\ pc = "returned"
    /\ pc' = "read"
    /\ frame' = IF hist.program = "ffUtils.js" /\ frame.result.status = 403
                THEN Returned(ErrorResult("Captcha required."))
                ELSE Returned([kind |-> "json", status |-> frame.result.status])
    /\ UNCHANGED <<disk, process, window, locals, server, hist>>

NextFetch ==
    \/ MyFetch
    \/ MyFetchRetry
    \/ ReadResponse

SpecFetch == InitFetch /\ [][NextFetch]_vars

\* The call keeps running until it returns or throws.
FairSpecFetch == SpecFetch /\ WF_vars(NextFetch)

(***************************************************************************)
(* The spacing of requests (ffUtils.js): calls of fetchPost, fetchThread   *)
(* and getLatestIndex for any of the hosts, one after the other, each      *)
(* setting the fetch site and then requesting through myFetch, retries     *)
(* included.  frame holds the module's globals; instead of the clock and   *)
(* lastFetchTime it holds, per host, now - lastFetchTime, and no more of   *)
(* it than Horizon, beyond which no delay depends on it.                   *)
(***************************************************************************)
Horizon == MIN_FETCH_INTERVAL("ffUtils.js", Moe)

Later(elapsed, ms) == [s \in Sites |-> Min(elapsed[s] + ms, Horizon)]

\* Variant of setFetchSite that leaves the interval alone.
M_setFetchSite_KeepInterval(globals, site) ==
    IF globals.fetchSite = site THEN globals
    ELSE [globals EXCEPT !.fetchSite = site]

setFetchSite(globals, site) ==
    IF globals.fetchSite = site THEN globals
    ELSE [globals EXCEPT !.fetchSite = site,
                         !.MIN_FETCH_INTERVAL = MIN_FETCH_INTERVAL("ffUtils.js", site)]

\* What happened so far, read by the properties only:
\*   ago       per host, the time since the last request to it went out
\*             (no more of it than Horizon; -1: none went out yet)
\*   to        the host of the last request
\*   gap       the time between that request and the one before it to the
\*             same host (-1: there was none before)
\*   delay     the spacing delay myFetch made before it
\*   retry     the last request was a retry
\*   switched  since the request before it to the same host, a request to
\*             another host went out
\*   others    per host, a request to another host went out since the last
\*             request to it
NoTraffic ==
    [ago |-> [s \in Sites |-> -1], to |-> Desu, gap |-> -1, delay |-> 0,
     retry |-> FALSE,
     switched |-> FALSE, others |-> [s \in Sites |-> FALSE]]

InitSpacing ==
    /\ manifestFile = DEFAULT_MANIFEST /\ cacheFile = {} /\ chunkFile = NoChunk
    /\ written = {}
    /\ pc = "caller"
    /\ full = FALSE /\ RETRY_CNT_MAX = 20 /\ runN = 0
    /\ manifest = DEFAULT_MANIFEST
    /\ start = 0 /\ end = 0 /\ newPosts = 0 /\ toDownload = 0
    /\ downloaded = EmptyStore
    /\ pNum = 0 /\ threadNum = 0
    /\ consPost = << >>
    /\ hist = NoTraffic
    /\ server = Idle
    /\ frame = [fetchSite |-> Desu, MIN_FETCH_INTERVAL |-> 0,
                elapsed |-> [s \in Sites |-> Horizon],
                site |-> Desu, retryN |-> 0]

\* The caller, some time after the last call returned, calls fetchPost,
\* fetchThread or getLatestIndex for a host: setFetchSite, then myFetch.
CallFetch ==
    /\ pc = "caller"
    /\ \E site \in Sites, pause \in Durations :
        LET globals == setFetchSite(frame, site)
        IN  /\ frame' = [globals EXCEPT !.site = site, !.retryN = 0,
                                        !.elapsed = Later(@, pause)]
            /\ RETRY_CNT_MAX' = CHOOSE limit \in RetryLimits("ffUtils.js", site) : TRUE
            /\ hist' = [hist EXCEPT
                           !.ago = [s \in Sites |->
                                       IF @[s] < 0 THEN @[s]
                                       ELSE Min(@[s] + pause, Horizon)]]
    /\ pc' = "myFetch"
    /\ UNCHANGED <<disk, full, runN, window, locals, server>>

\* myFetch: the spacing delay, the request, and then the return, or the
\* backoff and the call of itself, or the throw.
SpacedRequest ==
    /\ pc = "myFetch"
    /\ \E status \in Statuses, took \in Durations :
        LET delay == Max(0, frame.MIN_FETCH_INTERVAL - frame.elapsed[frame.fetchSite])
            backoff == Backoff("ffUtils.js", frame.retryN, status)
            allowErrors == IF frame.site = Moe THEN {403} ELSE {}
            over == IF Acceptable(allowErrors, status) \/ Exhausted(frame.retryN)
                    THEN took ELSE took + backoff
            sent == [Later(frame.elapsed, delay) EXCEPT ![frame.fetchSite] = 0]
            before == hist.ago[frame.site]
        IN  /\ hist' = [hist EXCEPT
                           !.to = frame.site,
                           !.gap = IF before < 0 THEN -1
                                   ELSE Min(before + delay, Horizon),
                           !.delay = delay,
                           !.retry = frame.retryN > 0,
                           !.switched = hist.others[frame.site],
                           !.others = [s \in Sites |-> s # frame.site /\ (@[s] \/ hist.ago[s] >= 0)],
                           !.ago = [s \in Sites |->
                                       IF s = frame.site THEN Min(over, Horizon)
                                       ELSE IF @[s] < 0 THEN @[s]
                                       ELSE Min(@[s] + delay + over, Horizon)]]
            /\ IF Acceptable(allowErrors, status) \/ Exhausted(frame.retryN)
               THEN /\ pc' = "caller"
                    /\ frame' = [frame EXCEPT !.elapsed = Later(sent, took)]
               ELSE /\ pc' = "myFetch"
                    /\ frame' = [frame EXCEPT !.elapsed = Later(sent, took + backoff),
                                              !.retryN = @ + 1]
    /\ UNCHANGED <<disk, process, window, locals, server>>

NextSpacing ==
    \/ CallFetch
    \/ SpacedRequest

SpecSpacing == InitSpacing /\ [][NextSpacing]_vars

(***************************************************************************)
(* Properties of the thread resolver.                                      *)
(***************************************************************************)
InSearch == pc = "fetchThreadSearch"
InChunked == pc = "fetchThreadChunked"
AskedChunk == InChunked \/ hist.chunk # << >>
ResultPosts == frame.result.op \cup frame.result.posts
ReturnedThread == pc = "returned" /\ frame.result.kind = "thread"

\* C14 as stated: when the direct thread request answers HTTP 500, the
\* resolver goes directly to chunked enumeration and makes no search request
\* for that thread.
C14_OversizedGoesChunked ==
    hist.direct = "500" => hist.search = {} /\ AskedChunk

\* C14: when the direct thread request answers HTTP 500, the resolver goes
\* to paginated search with the chunked fallback enabled: its next request
\* is a search request, and it starts chunked enumeration only if the search
\* backend reports itself unavailable.
C14_OversizedSearchesFirst ==
    hist.direct = "500" =>
        /\ InSearch => frame.useChunkedFallback
        /\ ~InSearch => hist.search # {}
        /\ AskedChunk => hist.search # {} /\ hist.unavailable

C14_Witness ==
    /\ hist.direct = "500" /\ hist.unavailable
    /\ Len(hist.chunk) > 1 /\ ReturnedThread /\ ResultPosts # {}

\* C15: for a thread whose direct endpoint answers 500 and whose search
\* endpoint serves its posts over several pages, a restart from page 1 with
\* the timestamp cursor included, the resolver returns every non-ghost post a
\* page held exactly once, the post whose number is the thread number as op
\* and all others under posts, also when the restart serves posts seen
\* before.
C15_SearchReturnsUnion ==
    (hist.direct = "500" /\ ~hist.unavailable /\ ReturnedThread) =>
        /\ {p.num : p \in ResultPosts} = hist.served
        /\ \A p \in ResultPosts : p.subnum = 0
        /\ \A p, q \in ResultPosts : p.num = q.num => p = q
        /\ frame.result.op = {p \in ResultPosts : p.num = threadNum}
        /\ frame.result.posts = {p \in ResultPosts : p.num # threadNum}

C15_Witness ==
    /\ hist.direct = "500" /\ ~hist.unavailable /\ ReturnedThread
    /\ hist.restarts > 0 /\ hist.reServed /\ Cardinality(hist.search) > 2
    /\ frame.result.op # {} /\ frame.result.posts # {}
    /\ \E p \in Range(server.thread) : p.subnum # 0

\* C16: chunk requests are made only after the direct request answered 500
\* and the search backend then reported itself unavailable; when the direct
\* request answered "Thread not found." and the search backend reports
\* itself unavailable, the resolver returns "Thread not found." and makes no
\* chunk request.
C16_ChunkOnlyOnFallback ==
    /\ AskedChunk => hist.direct = "500" /\ hist.unavailable
    /\ (hist.direct = "Thread not found." /\ hist.unavailable) =>
            /\ pc = "returned"
            /\ frame.result = ErrorResult("Thread not found.")
            /\ hist.chunk = << >>

C16_Witness ==
    /\ hist.direct = "Thread not found." /\ hist.unavailable
    /\ Cardinality(hist.search) > 1

C18_ChunkedPages ==
    /\ \A i \in 1..Len(hist.chunk) : hist.chunk[i] = i
    /\ InChunked => ~hist.ended /\ frame.start = Len(hist.chunk) + 1
    /\ hist.ended =>
            /\ ReturnedThread
            /\ {p.num : p \in ResultPosts} = {n \in ThreadNums : hist.latest[n] > 0}
            /\ \A p \in ResultPosts : p.subnum = 0 /\ p.rev = hist.latest[p.num]
            /\ \A p, q \in ResultPosts : p.num = q.num => p = q
    /\ (hist.chunk # << >> /\ pc = "returned" /\ ~hist.ended) =>
            /\ frame.result.kind = "error"
            /\ frame.result.error # ""

C18_Witness ==
    /\ hist.ended /\ Len(hist.chunk) > 2 /\ hist.again
    /\ \E p \in ResultPosts : p.rev = 1
    /\ \E p \in Range(server.thread) : p.subnum # 0 /\ hist.latest[p.num] = 0

(***************************************************************************)
(* Properties of myFetch.                                                  *)
(***************************************************************************)
FetchOver == pc \in {"returned", "thrown", "read"}

C19_Requests ==
    /\ hist.requests <= RETRY_CNT_MAX + 1
    /\ pc = "returned" =>
            /\ frame.result.status = hist.answer
            /\ Acceptable(hist.allowErrors, hist.answer)
            /\ hist.requests = hist.failures + 1
    /\ pc = "thrown" =>
            /\ hist.failures = RETRY_CNT_MAX + 1
            /\ hist.requests = RETRY_CNT_MAX + 1
    /\ ~FetchOver => hist.failures = hist.requests

\* C19: myFetch returns the first acceptable response if one comes within
\* the retry limit (three failures and then a success return that success);
\* when every attempt fails it throws, having sent exactly
\* RETRY_CNT_MAX + 1 requests, and it never sends more; it always
\* terminates.
C19_FirstAcceptableOrThrow == []C19_Requests /\ <>FetchOver

C19_Witness ==
    /\ pc = "returned" /\ hist.failures = 3 /\ frame.result.status = 200

\* C20: the delay before retry n (n = 0, 1, 2, ...) of a failed request is
\* min(500 * 2^n, 30000) ms, plus 16000 ms if and only if the failed attempt
\* was answered 429, in the archive builder as in the upgrade scanner.
C20_BackoffDelay ==
    pc = "backoff" =>
        frame.backoff = Min(500 * 2 ^ frame.retryN, 30000)
                            + (IF hist.status = 429 THEN 16000 ELSE 0)

(***************************************************************************)
(* Properties of the spacing of requests.                                  *)
(***************************************************************************)
\* C21: any two successive requests to the same host, retries included, are
\* at least that host's minimum spacing apart (2600 ms for archived.moe, 0
\* for the other two), also after the client turned to another host and
\* back.
C21_MinimumSpacing ==
    hist.gap >= 0 => hist.gap >= (IF hist.to = Moe THEN 2600 ELSE 0)

C21_Witness ==
    /\ hist.to = Moe /\ hist.gap = 2600 /\ hist.switched /\ hist.delay > 0

\* C22: a 403 answer to a request to archived.moe is not retried and comes
\* back as the error value "Captcha required.", nothing is thrown; a 403
\* from desuarchive.org or arch.b4k.dev counts as a failed attempt and is
\* retried with the backoff.
C22_CaptchaOnlyOnMoe ==
    hist.answer = 403 =>
        IF hist.site = Moe
        THEN /\ pc \in {"returned", "read"}
             /\ hist.requests = hist.failures + 1
             /\ hist.failures > 0 => hist.status # 403
             /\ pc = "read" => frame.result = ErrorResult("Captcha required.")
        ELSE /\ hist.status = 403 /\ hist.failures = hist.requests
             /\ pc \in {"backoff", "myFetch", "thrown"}
             /\ pc = "thrown" => hist.requests = RETRY_CNT_MAX + 1
             /\ pc = "backoff" => frame.backoff = Backoff(hist.program, frame.retryN, 403)

C22_Witness ==
    /\ hist.answer = 403 /\ hist.site = Moe /\ pc = "read"
    /\ hist.allowErrors = {500, 403} /\ hist.failures > 0

(***************************************************************************)
(* Properties of the archive builder's passes and files.                   *)
(***************************************************************************)
Queried(site) == hist.asked[site] # {} \/ site \in hist.fatal

SecondaryRestricted ==
    /\ Queried(B4k) => hist.missingAfterPrimary
    /\ pc \in {"secondary", "secondary thread"} => hist.missingAfterPrimary
    /\ hist.needless = {}

CacheNums(cache) == {p.num : p \in cache}

\* C29: when the chunk file of a run is written, every post the cache file
\* held at run start with a number at or above the window start is in the
\* chunk or in the newly written cache file.
C29_CachedPostsKept ==
    pc = "save manifest" =>
        \A n \in CacheNums(hist.cache0) :
            n >= start => n \in ChunkNums \/ n \in CacheNums(cacheFile)

\* C30: when a run has failed or was terminated, the cache file is the one
\* the run found when it started.
C30_CacheOnlyAfterSuccess ==
    pc \in {"aborted", "killed"} => cacheFile = hist.cache0

(***************************************************************************)
(* The upgrade scanner (reCheck.js main) and the release script that runs  *)
(* it.  The scanned file holds the records of the posts of thread 1, in    *)
(* ascending order; it is held as the sequence of its records.  Each host  *)
(* holds some of the posts for the whole scan; a request is answered from  *)
(* what the host holds or fails (myFetch throws after its last retry), and *)
(* a thread request may also be answered with an error value.              *)
(* server is what the hosts hold; frame holds the files and the scanner's  *)
(* locals; downloaded is the scanner's map of fetched posts.               *)
(***************************************************************************)
MaxRecs == 2
ScanNums == {2 * i - 1 : i \in 1..MaxRecs}
ScanThreads == {ThreadOf(n) : n \in ScanNums}

\* Mutant: the cutoff lies after every timestamp.
M_upgradeCutoff_Future == MaxTime + 1

\* reCheck.js 439-440: records with a smaller timestamp are not re-verified.
upgradeCutoff == MaxTime

\* The post a host answers for a number, and the record fetchPost makes of it.
Raw(n, site, ts) ==
    [kind |-> "post", num |-> n, subnum |-> "0", thread_num |-> ThreadOf(n),
     origin |-> site, cp |-> ThreadLink(site),
     extra_data |-> IF site = Moe THEN EdAbsent ELSE EdEmpty, timestamp |-> ts]
Version(n, site) == fetchPost(Raw(n, site, MaxTime), site)

\* The records a scanned file can hold for a number.
InputRecords(n) ==
    {Placeholder(n, PostNotFound, ts) : ts \in 1..MaxTime}
        \cup {fetchPost(Raw(n, site, ts), site) : site \in Sites, ts \in 1..MaxTime}
InputFiles ==
    {f \in [1..MaxRecs -> UNION {InputRecords(n) : n \in ScanNums}] :
        \A i \in 1..MaxRecs : f[i].num = 2 * i - 1}

NoFile == [kind |-> "no file"]
NoResult == [kind |-> "none"]
Outcomes == {"answer", "error", "throw"}

\* fetchPost as reCheck.js calls it (lines 316-319, 344-347): a thrown
\* failure becomes the value { error: "Fetch error" }.
PostAnswer(n, site, held, outcome) ==
    IF outcome = "throw" THEN ErrorResult("Fetch error")
    ELSE IF n \in held THEN fetchPost(Raw(n, site, MaxTime), site)
    ELSE ErrorResult("Post not found.")

\* fetchThread as reCheck.js calls it (lines 334-340).
ThreadAnswer(tn, site, held, outcome) ==
    LET members == {n \in held : ThreadOf(n) = tn}
    IN  IF outcome = "throw" THEN ErrorResult("Fetch error")
        ELSE IF outcome = "error"
        THEN ErrorResult(IF site = Moe THEN "Captcha required." ELSE "Thread not found.")
        ELSE IF members = {} THEN ErrorResult("Thread not found.")
        ELSE [kind |-> "thread",
              posts |-> fetchThread({Raw(n, site, MaxTime) : n \in members}, site)]

\* reCheck.js 355-364: addPost for the op and the posts of a thread.
RECURSIVE reCheckAddAll(_, _, _)
reCheckAddAll(dl, posts, site) ==
    IF posts = {} THEN dl
    ELSE LET p == CHOOSE q \in posts : \A r \in posts : q.num <= r.num
         IN  reCheckAddAll(reCheckAddPost(dl, p, site).downloaded, posts \ {p}, site)

Fetched(dl, ft, result, resolved, threw) ==
    [downloaded |-> dl, fetchedThreads |-> ft, result |-> result,
     resolved |-> resolved, threw |-> threw]

\* reCheck.js 334-340: the result of fetchThread is stored by .then, which a
\* thrown failure skips.
KeepThread(fresh, outcome) == fresh /\ outcome # "throw"

\* reCheck.js fetchPostAndThread.  resolved is the thread fetchThread was
\* called for (0: none), threw whether a request failed.
fetchPostAndThread(dl, ft, existing, cached, site, held, oPost, oThread, oAgain) ==
    LET num == existing.num
        known == IF IsPost(existing) THEN existing.thread_num
                 ELSE IF IsPost(cached) THEN cached.thread_num
                 ELSE 0
        fPost == PostAnswer(num, site, held, oPost)
    IN  IF known = 0 /\ fPost.kind = "error"
        THEN Fetched(dl, ft, fPost, 0, oPost = "throw")
        ELSE
        LET post == IF known = 0 THEN fPost ELSE ErrorResult("Post not found.")
            dl1 == IF known = 0 THEN reCheckAddPost(dl, fPost, site).downloaded ELSE dl
            tn == IF known = 0 THEN fPost.thread_num ELSE known
            alreadyFetched == ft[site][tn]
            fresh == alreadyFetched.kind = "none"
            answer == ThreadAnswer(tn, site, held, oThread)
            fThread == IF fresh THEN answer ELSE alreadyFetched
            ft1 == IF KeepThread(fresh, oThread)
                   THEN [ft EXCEPT ![site][tn] = answer] ELSE ft
            resolved == IF fresh THEN tn ELSE 0
            threw == fresh /\ oThread = "throw"
        IN  IF fThread.kind = "error"
            THEN IF post.kind = "error"
                 THEN LET again == PostAnswer(num, site, held, oAgain)
                      IN  Fetched(IF again.kind = "error" THEN dl1
                                  ELSE reCheckAddPost(dl1, again, site).downloaded,
                                  ft1, again, resolved, threw \/ oAgain = "throw")
                 ELSE Fetched(dl1, ft1, post, resolved, threw)
            ELSE LET dl2 == reCheckAddAll(dl1, fThread.posts, site)
                     newCached == dl2[num]
                 IN  Fetched(dl2, ft1,
                             IF IsPost(newCached) /\ getSource(newCached) = site
                             THEN newCached ELSE post,
                             resolved, threw)

\* The effective source of a record or of a map entry; "null" for a
\* placeholder and for no entry.
SourceOf(r) == IF IsPost(r) THEN getSource(r) ELSE "null"

\* Mutant: the tertiary host is asked before the secondary host.
M_NextSite_MoeFirst(site) == IF site = Desu THEN Moe ELSE B4k

\* checkArchives: the host asked after the given one.
NextSite(site) == IF site = Desu THEN B4k ELSE Moe

\* Mutant: whatever the map holds for the number is preferred to the record.
M_Fallback_CacheFirst(site, existing, cached) ==
    IF SourceOf(cached) # "null" THEN cached
    ELSE IF site = Moe THEN existing
    ELSE NoResult

\* checkArchives after the attempt at a host failed (lines 391-402, 409-420,
\* 427-436): the record to return, or NoResult to go on with the next host.
Fallback(site, existing, cached) ==
    CASE site = Desu ->
            IF SourceOf(existing) = B4k THEN existing
            ELSE IF SourceOf(cached) \in {Desu, B4k} THEN cached
            ELSE NoResult
      [] site = B4k ->
            IF SourceOf(existing) = Moe THEN existing
            ELSE IF SourceOf(cached) # "null" THEN cached
            ELSE NoResult
      [] OTHER ->
            IF SourceOf(cached) # "null" THEN cached ELSE existing

\* History of a scan, read by the properties only:
\*   before     the file before the scan
\*   resolved   per host and thread: the calls of fetchThread
\*   tried      the hosts asked for the record in hand, in order
\*   threw      the hosts a request to which failed for the record in hand
\*   renamed    the temporary file was renamed over the input file
NoScan(file) ==
    [before |-> file,
     resolved |-> [site \in Sites |-> [tn \in ScanThreads |-> 0]],
     tried |-> << >>, threw |-> {}, renamed |-> FALSE]

\* part_001 36: the digest of the file; it stands for the file's content.
sha256sum(file) == [digest |-> file]

InitScan ==
    /\ manifestFile = DEFAULT_MANIFEST /\ cacheFile = {} /\ chunkFile = NoChunk
    /\ written = {}
    /\ pc = "transform"
    /\ full = FALSE /\ RETRY_CNT_MAX = 20 /\ runN = 0
    /\ manifest = DEFAULT_MANIFEST
    /\ start = 0 /\ end = 0 /\ newPosts = 0 /\ toDownload = 0
    /\ downloaded = [n \in ScanNums |-> NoEntry]
    /\ pNum = 0 /\ threadNum = 0 /\ consPost = << >>
    /\ server \in [Sites -> SUBSET ScanNums]
    /\ \E file \in InputFiles :
        /\ frame = [inputPath |-> file, outputPath |-> << >>,
                    HASH_BEFORE |-> sha256sum(file),
                    fetchedThreads |-> [site \in Sites |-> [tn \in ScanThreads |-> NoResult]],
                    existing |-> NoEntry, cached |-> NoEntry, site |-> Desu]
        /\ hist = NoScan(file)

ScanRest == <<disk, process, window, pNum, threadNum, consPost, server>>

\* The record is written to the temporary file.
Written(r) == [frame EXCEPT !.outputPath = Append(@, r)]

\* reCheck.js 445-469, the callback of transformNDJSON for the next record,
\* up to the call of checkArchives.
ScanRecord ==
    /\ pc = "transform"
    /\ Len(frame.outputPath) < Len(frame.inputPath)
    /\ LET existing == frame.inputPath[Len(frame.outputPath) + 1]
           cached == downloaded[existing.num]
       IN  /\ hist' = [hist EXCEPT !.tried = << >>, !.threw = {}]
           /\ IF SourceOf(existing) = Desu
              THEN /\ frame' = Written(existing)
                   /\ pc' = "transform"
              ELSE IF SourceOf(cached) = Desu
              THEN /\ frame' = Written(cached)
                   /\ pc' = "transform"
              ELSE IF existing.timestamp < upgradeCutoff
              THEN /\ frame' = Written(existing)
                   /\ pc' = "transform"
              ELSE /\ frame' = [frame EXCEPT !.existing = existing,
                                             !.cached = cached, !.site = Desu]
                   /\ pc' = "checkArchives"
    /\ UNCHANGED <<downloaded, ScanRest>>

\* checkArchives (385-437): fetchPostAndThread at the host in turn and what
\* follows it up to the next host.
CheckArchive ==
    /\ pc = "checkArchives"
    /\ \E oPost \in {"answer", "throw"}, oThread \in Outcomes, oAgain \in {"answer", "throw"} :
        LET site == frame.site
            r == fetchPostAndThread(downloaded, frame.fetchedThreads, frame.existing,
                                    frame.cached, site, server[site],
                                    oPost, oThread, oAgain)
            cached == r.downloaded[frame.existing.num]
            back == Fallback(site, frame.existing, cached)
            f1 == [frame EXCEPT !.fetchedThreads = r.fetchedThreads]
            out == IF r.result.kind # "error" THEN r.result ELSE back
        IN  /\ downloaded' = r.downloaded
            /\ hist' = [hist EXCEPT
                          !.tried = Append(@, site),
                          !.threw = IF r.threw THEN @ \cup {site} ELSE @,
                          !.resolved = IF r.resolved = 0 THEN @
                                       ELSE [@ EXCEPT ![site][r.resolved] = @ + 1]]
            /\ IF out = NoResult
               THEN /\ frame' = [f1 EXCEPT !.cached = cached, !.site = NextSite(site)]
                    /\ pc' = "checkArchives"
               ELSE /\ frame' = [f1 EXCEPT !.outputPath = Append(@, out),
                                           !.existing = NoEntry, !.cached = NoEntry,
                                           !.site = Desu]
                    /\ pc' = "transform"
    /\ UNCHANGED ScanRest

\* Mutant: the temporary file replaces the input file only if it differs.
M_Rename_IfChanged ==
    /\ pc = "transform"
    /\ Len(frame.outputPath) = Len(frame.inputPath)
    /\ IF frame.outputPath = frame.inputPath
       THEN /\ frame' = [frame EXCEPT !.outputPath = NoFile]
            /\ UNCHANGED hist
       ELSE /\ frame' = [frame EXCEPT !.inputPath = frame.outputPath,
                                      !.outputPath = NoFile]
            /\ hist' = [hist EXCEPT !.renamed = TRUE]
    /\ pc' = "compare"
    /\ UNCHANGED <<downloaded, ScanRest>>

\* reCheck.js 481-483: every record is written; the temporary file is
\* renamed over the input file.
Rename ==
    /\ pc = "transform"
    /\ Len(frame.outputPath) = Len(frame.inputPath)
    /\ frame' = [frame EXCEPT !.inputPath = frame.outputPath, !.outputPath = NoFile]
    /\ hist' = [hist EXCEPT !.renamed = TRUE]
    /\ pc' = "compare"
    /\ UNCHANGED <<downloaded, ScanRest>>

\* part_001 44-55: the release script compares the digests and uploads the
\* file or reports that nothing changed.
CompareHashes ==
    /\ pc = "compare"
    /\ pc' = IF frame.HASH_BEFORE = sha256sum(frame.inputPath)
             THEN "no changes" ELSE "uploaded"
    /\ UNCHANGED <<frame, hist, downloaded, ScanRest>>

NextScan ==
    \/ ScanRecord
    \/ CheckArchive
    \/ Rename
    \/ CompareHashes

SpecScan == InitScan /\ [][NextScan]_vars

(***************************************************************************)
(* Properties of the upgrade scanner.                                      *)
(***************************************************************************)
\* A record has just been written: LastIn is the record read, LastOut the
\* record written at its position.
RecordDone == pc = "transform" /\ frame.outputPath # << >>
LastIn == hist.before[Len(frame.outputPath)]
LastOut == frame.outputPath[Len(frame.outputPath)]
Recent(r) == r.timestamp >= MaxTime
ScanOver == pc \in {"compare", "no changes", "uploaded"}

C25_OldRecordsUnchanged ==
    (RecordDone /\ SourceOf(LastIn) # Desu /\ ~Recent(LastIn)) => LastOut = LastIn

\* C26: during a scan fetchThread is called at most once for every host and
\* thread, whatever its first call gave.
C26_ThreadResolvedOnce ==
    pc \in {"transform", "checkArchives"} =>
        \A site \in Sites : \A tn \in ScanThreads : hist.resolved[site][tn] <= 1

IsPrefix(a, b) == Len(a) <= Len(b) /\ \A i \in 1..Len(a) : a[i] = b[i]
Yields(site) == LastIn.num \in server[site] /\ site \notin hist.threw

\* C27: for a record checkArchives was called for, the hosts are asked in
\* the order primary, secondary, tertiary; no host of higher priority than
\* the source of the written record holds and serves the post; a written
\* record that is not the original is the version of the host that is its
\* source, which holds the post; so when no host holds the post the original
\* is written.
C27_FirstSourceWins ==
    (RecordDone /\ hist.tried # << >>) =>
        /\ IsPrefix(hist.tried, <<Desu, B4k, Moe>>)
        /\ \A site \in Sites :
              PRIORITY(site) > PRIORITY(SourceOf(LastOut)) => ~Yields(site)
        /\ LastOut # LastIn =>
              /\ IsPost(LastOut)
              /\ LastOut = Version(LastIn.num, SourceOf(LastOut))
              /\ LastIn.num \in server[SourceOf(LastOut)]
        /\ (\A site \in Sites : LastIn.num \notin server[site]) => LastOut = LastIn

C27_Witness ==
    /\ RecordDone
    /\ hist.tried = <<Desu, B4k, Moe>> /\ hist.threw = {}
    /\ ~IsPost(LastIn)
    /\ LastOut = Version(LastIn.num, Moe)

\* C28 as stated: the input file is replaced only if the scan changed a
\* record.
C28_ReplacedOnlyIfChanged ==
    (ScanOver /\ frame.inputPath = hist.before) => ~hist.renamed

\* C28: after every completed scan the temporary file has been renamed over
\* the input file, whether or not a record changed; the release script
\* reports no changes exactly if the file's content is what it was before
\* the scan, and uploads the file otherwise.
C28_ReplacedAfterEveryScan ==
    ScanOver =>
        /\ hist.renamed /\ frame.outputPath = NoFile
        /\ pc = "no changes" => frame.inputPath = hist.before
        /\ pc = "uploaded" => frame.inputPath # hist.before

C28_Witness ==
    /\ pc = "no changes" /\ hist.renamed
    /\ frame.inputPath = hist.before /\ frame.outputPath = NoFile
    /\ \E i \in 1..Len(hist.before) : SourceOf(hist.before[i]) # Desu /\ Recent(hist.before[i])

(***************************************************************************)
(* How a run reads its two files (downloader.js getManifest and the cache  *)
(* load of downloadChunk).  Here manifestFile and cacheFile hold what is   *)
(* on disk as text: no file, text that is not JSON, or a JSON value of any *)
(* type.                                                                   *)
(***************************************************************************)
JAbsent == [t |-> "absent"]
JNull == [t |-> "null"]
JString == [t |-> "string"]
JNumber(v) == [t |-> "number", v |-> v]
JArray(items) == [t |-> "array", v |-> items]
JObject(v) == [t |-> "object", v |-> v]

NoSuchFile == [json |-> "missing"]
Garbage == [json |-> "garbage"]
Json(value) == [json |-> "parsed", value |-> value]

ManifestTexts ==
    {NoSuchFile, Garbage, Json(JNull), Json(JString), Json(JNumber(1)), Json(JArray(<< >>))}
        \cup {Json(JObject([lastDownLoaded |-> l, daily |-> d])) :
                l \in {JAbsent, JString, JNumber(0), JNumber(1)},
                d \in {JAbsent, JString, JArray(<< >>), JArray(<<"chunk">>)}}

CachedPost(n) == MkPost(n, "0", Desu, PostLink(Desu), EdEmpty)
CacheTexts ==
    {NoSuchFile, Garbage, Json(JNull), Json(JString), Json(JNumber(1)),
     Json(JObject(<< >>)), Json(JArray(<< >>)), Json(JArray(<<JNull>>)),
     Json(JArray(<<JNumber(1)>>))}
        \cup {Json(JArray(<<JObject(CachedPost(n))>>)) : n \in Nums}
        \cup {Json(JArray(<<JObject(CachedPost(n)), JNull>>)) : n \in Nums}

\* getManifest (155-183).
getManifest(file) ==
    IF file.json # "parsed" \/ file.value.t # "object" THEN DEFAULT_MANIFEST
    ELSE [lastDownLoaded |-> IF file.value.v.lastDownLoaded.t = "number"
                             THEN file.value.v.lastDownLoaded.v ELSE 0,
          daily |-> IF file.value.v.daily.t = "array"
                    THEN file.value.v.daily.v ELSE << >>]

\* Lines 461-472 throw: JSON.parse on text that is not JSON, for...of on a
\* value that is not iterable, post.num on a null element.
CacheLoadThrows(file) ==
    \/ file.json = "garbage"
    \/ /\ file.json = "parsed"
       /\ \/ file.value.t \in {"null", "number", "object"}
          \/ /\ file.value.t = "array"
             /\ \E i \in 1..Len(file.value.v) : file.value.v[i].t = "null"

\* Lines 461-472: postLookup, the cached posts at or above the window start
\* (an element without a num gets the key NaN, which no number equals).
PostLookup(file, s) ==
    IF file.json = "parsed" /\ file.value.t = "array"
    THEN {file.value.v[i].v : i \in {j \in 1..Len(file.value.v) :
                                        /\ file.value.v[j].t = "object"
                                        /\ file.value.v[j].v.num >= s}}
    ELSE {}

InitLoad ==
    /\ manifestFile \in ManifestTexts
    /\ cacheFile \in CacheTexts
    /\ chunkFile = NoChunk /\ written = {}
    /\ pc = "getManifest"
    /\ full = FALSE /\ RETRY_CNT_MAX = 20 /\ runN = 0
    /\ manifest = DEFAULT_MANIFEST
    /\ start = 0 /\ end = 0 /\ newPosts = 0 /\ toDownload = 0
    /\ downloaded = EmptyStore
    /\ pNum = 0 /\ threadNum = 0 /\ consPost = << >>
    /\ hist = [thrown |-> "nothing"]
    /\ server = Idle /\ frame = Idle

LoadRest == <<disk, process, pNum, threadNum, consPost, aux>>

\* Line 449.
GetManifest ==
    /\ pc = "getManifest"
    /\ manifest' = getManifest(manifestFile)
    /\ pc' = "getLatestIndex"
    /\ UNCHANGED <<start, end, newPosts, toDownload, downloaded, hist, LoadRest>>

\* Lines 450-458: the index request fails fatally, or gives the latest number.
GetLatestIndex ==
    /\ pc = "getLatestIndex"
    /\ \/ /\ pc' = "aborted"
          /\ hist' = [thrown |-> "getLatestIndex"]
          /\ UNCHANGED <<start, end, newPosts, toDownload>>
       \/ \E lastDesuPost \in 0..MaxNum :
            LET np == lastDesuPost - manifest.lastDownLoaded
                td == Min(Max(np, 0), CHUNK_POSTS_MAX)
            IN  /\ newPosts' = np
                /\ toDownload' = td
                /\ UNCHANGED hist
                /\ IF td = 0
                   THEN /\ pc' = "exit"
                        /\ UNCHANGED <<start, end>>
                   ELSE /\ pc' = "load cache"
                        /\ start' = manifest.lastDownLoaded + 1
                        /\ end' = manifest.lastDownLoaded + td
    /\ UNCHANGED <<manifest, downloaded, LoadRest>>

\* Lines 459-480: the cache is read and seeds the store.
LoadCache ==
    /\ pc = "load cache"
    /\ IF CacheLoadThrows(cacheFile)
       THEN /\ pc' = "aborted"
            /\ hist' = [thrown |-> "load cache"]
            /\ UNCHANGED downloaded
       ELSE /\ pc' = "primary"
            /\ downloaded' = Seeded(PostLookup(cacheFile, start), start, end)
            /\ UNCHANGED hist
    /\ UNCHANGED <<manifest, start, end, newPosts, toDownload, LoadRest>>

NextLoad ==
    \/ GetManifest
    \/ GetLatestIndex
    \/ LoadCache

SpecLoad == InitLoad /\ [][NextLoad]_vars

\* A file that is there and is not what the program writes.
CorruptManifest ==
    /\ manifestFile # NoSuchFile
    /\ \/ manifestFile.json = "garbage"
       \/ manifestFile.value.t # "object"
       \/ manifestFile.value.v.lastDownLoaded.t # "number"
       \/ manifestFile.value.v.daily.t # "array"
CorruptCache ==
    /\ cacheFile # NoSuchFile
    /\ \/ cacheFile.json = "garbage"
       \/ cacheFile.value.t # "array"
       \/ \E i \in 1..Len(cacheFile.value.v) : cacheFile.value.v[i].t # "object"

\* C31: a run whose manifest file or cache file is corrupt is not aborted
\* by reading it: it aborts only when a fetch fails, and otherwise reaches
\* the primary pass with the defaults in place of what the corrupt file
\* would have given.
C31_CorruptFilesRecovered ==
    /\ pc = "aborted" => hist.thrown = "getLatestIndex"
    /\ (pc = "primary" /\ CorruptCache) => downloaded = EmptyStore
    /\ (pc \in {"getLatestIndex", "load cache", "primary"} /\ manifestFile.json # "parsed")
            => manifest = DEFAULT_MANIFEST

\* ---------------------------------------------------------------------------
\* The browser fetcher: cdpFetch, getCDPFetcher, initCDPFetcher and the page
\* script.  `frame` holds the module's globals and the closures of the
\* launched browsers, `server` the cdpFetch calls under way, `hist` what has
\* happened to the browsers.
\* ---------------------------------------------------------------------------

MaxCalls == 2
MaxLaunches == 2

Calls == 1..MaxCalls
Browsers == 1..MaxLaunches
HttpStatuses == {200, 403, 404}
ExitCodes == {"0", "1", "null"}

\* Response.ok
Ok(status) == status >= 200 /\ status <= 299

NoRequest == [at |-> "idle", host |-> Desu, status |-> 0, via |-> FALSE,
           captcha |-> FALSE, waitOn |-> 0, result |-> 0, from |-> "none"]
NoBrowser == [chrome |-> "none", cleanedUp |-> FALSE, init |-> "none"]

\* Lines 837-843 answered by the direct fetch, for every host.
M_Direct_AnyHost(host, status) == Ok(status) \/ status # 403

\* Lines 837-843: the cases cdpFetch answers with the direct fetch.
Direct(host, status) == host # Moe \/ Ok(status) \/ status # 403

\* Lines 304-311: the page goes on to trySolveCaptcha.
Solve(interactive, status) == ~(Ok(status) \/ status # 403) /\ interactive

Respond(call, status, from) ==
    [call EXCEPT !.at = "returned", !.result = status, !.from = from]

\* Lines 537-582.
cleanup(f, i, doReinit) ==
    LET g == IF ~doReinit THEN [f EXCEPT !.dontReinit = TRUE] ELSE f
    IN  IF g.inst[i].cleanedUp THEN g
        ELSE [g EXCEPT !.inst[i].cleanedUp = TRUE,
                       !.inst[i].chrome = IF @ = "running" THEN "killing" ELSE @,
                       !.cdpFetcher = 0,
                       !.cdpInitPromise = 0]

\* The cleanup functions held in `cleanups` (lines 533, 546-549).
cleanups(f) == {i \in Browsers : f.inst[i].init \in {"running", "ready", "null"}
                                 /\ ~f.inst[i].cleanedUp}

RECURSIVE CleanupAll(_, _)
CleanupAll(f, todo) ==
    IF todo = {} THEN f
    ELSE LET i == CHOOSE j \in todo : \A k \in todo : j <= k
         IN  CleanupAll(cleanup(f, i, TRUE), todo \ {i})

\* Lines 735-741: the request is entered in pendingRequests and sent.
fetchViaCDP(f, i, c) == [f EXCEPT !.pendingRequests = @ \cup {<<i, c>>}]

InitCDP ==
    /\ manifestFile = NoSuchFile /\ cacheFile = NoSuchFile
    /\ chunkFile = NoChunk /\ written = {}
    /\ pc = "cdp"
    /\ full = FALSE /\ RETRY_CNT_MAX = 20 /\ runN = 0
    /\ manifest = DEFAULT_MANIFEST
    /\ start = 0 /\ end = 0 /\ newPosts = 0 /\ toDownload = 0
    /\ downloaded = EmptyStore
    /\ pNum = 0 /\ threadNum = 0 /\ consPost = << >>
    /\ hist = [launches |-> 0, exits |-> {}, initFailed |-> FALSE, closed |-> FALSE]
    /\ server = [c \in Calls |-> NoRequest]
    /\ \E interactive \in BOOLEAN :
         frame = [INTERACTIVE |-> interactive, dontReinit |-> FALSE,
                  cdpFetcher |-> 0, cdpInitPromise |-> 0,
                  inst |-> [i \in Browsers |-> NoBrowser],
                  pendingRequests |-> {}]

CDPRest == <<disk, pc, process, window, locals>>

\* Lines 834-845: the direct fetch and what cdpFetch does with its answer.
CdpFetch(c) ==
    /\ pc = "cdp" /\ server[c].at = "idle"
    /\ \E host \in Sites, status \in HttpStatuses :
         server' = [server EXCEPT ![c] =
                      IF Direct(host, status)
                      THEN Respond([@ EXCEPT !.host = host, !.status = status],
                                    status, "direct")
                      ELSE [@ EXCEPT !.host = host, !.status = status,
                                     !.at = "getCDPFetcher", !.via = TRUE]]
    /\ UNCHANGED <<CDPRest, hist, frame>>

\* Lines 792-809, and 846-857 where the fetcher is there at once.
GetCDPFetcher(c) ==
    /\ pc = "cdp" /\ server[c].at = "getCDPFetcher"
    /\ IF frame.cdpFetcher # 0
       THEN /\ frame' = fetchViaCDP(frame, frame.cdpFetcher, c)
            /\ server' = [server EXCEPT ![c].at = "pending",
                                        ![c].waitOn = frame.cdpFetcher]
            /\ UNCHANGED hist
       ELSE IF frame.cdpInitPromise # 0
       THEN /\ server' = [server EXCEPT ![c].at = "await init",
                                        ![c].waitOn = frame.cdpInitPromise]
            /\ UNCHANGED <<hist, frame>>
       ELSE IF frame.dontReinit
       THEN /\ server' = [server EXCEPT ![c] = Respond(@, @.status, "direct")]
            /\ UNCHANGED <<hist, frame>>
       ELSE /\ hist.launches < MaxLaunches
            /\ LET i == hist.launches + 1
               IN  /\ frame' = [frame EXCEPT !.cdpInitPromise = i,
                                             !.inst[i].init = "waiting"]
                   /\ server' = [server EXCEPT ![c].at = "await init",
                                               ![c].waitOn = i]
                   /\ hist' = [hist EXCEPT !.launches = i]
    /\ UNCHANGED CDPRest

\* Lines 518-522 and 598-600: the browser is started once no cleanup is
\* under way.
Spawn(i) ==
    /\ pc = "cdp" /\ frame.inst[i].init = "waiting"
    /\ \A j \in Browsers : frame.inst[j].chrome # "killing"
    /\ frame' = [frame EXCEPT !.inst[i].init = "running",
                              !.inst[i].chrome = "running"]
    /\ UNCHANGED <<CDPRest, hist, server>>

\* Lines 786 and 802-806: initCDPFetcher returns fetchViaCDP.
InitReady(i) ==
    /\ pc = "cdp" /\ frame.inst[i].init = "running"
    /\ ~frame.inst[i].cleanedUp
    /\ frame' = [frame EXCEPT !.inst[i].init = "ready",
                              !.cdpFetcher = i,
                              !.cdpInitPromise = 0]
    /\ UNCHANGED <<CDPRest, hist, server>>

\* Lines 615-784 and 802-806: initCDPFetcher returns null, after cleanup()
\* when a step of the initialization failed (also the "error" event of lines
\* 610-613), at once when the browser was cleaned up meanwhile.
InitFails(i) ==
    /\ pc = "cdp" /\ frame.inst[i].init = "running"
    /\ LET f == IF frame.inst[i].cleanedUp THEN frame ELSE cleanup(frame, i, FALSE)
       IN  frame' = [f EXCEPT !.inst[i].init = "null",
                              !.cdpFetcher = 0,
                              !.cdpInitPromise = 0]
    /\ hist' = [hist EXCEPT !.initFailed = @ \/ ~frame.inst[i].cleanedUp]
    /\ UNCHANGED <<CDPRest, server>>

\* Lines 845-857: the call that waited for the initialization goes on.
AwaitInit(c) ==
    /\ pc = "cdp" /\ server[c].at = "await init"
    /\ LET i == server[c].waitOn
       IN  \/ /\ frame.inst[i].init = "ready"
              /\ frame' = fetchViaCDP(frame, i, c)
              /\ server' = [server EXCEPT ![c].at = "pending"]
           \/ /\ frame.inst[i].init = "null"
              /\ server' = [server EXCEPT ![c] = Respond(@, @.status, "direct")]
              /\ UNCHANGED frame
    /\ UNCHANGED <<CDPRest, hist>>

\* Lines 743-767: the answer of the page settles the entry of pendingRequests.
bindingCalled(f, i, c) == [f EXCEPT !.pendingRequests = @ \ {<<i, c>>}]

\* Lines 301-313: the page fetches the address itself.
PerformFetch(c) ==
    /\ pc = "cdp" /\ server[c].at = "pending"
    /\ LET i == server[c].waitOn
       IN  /\ <<i, c>> \in frame.pendingRequests
           /\ frame.inst[i].chrome = "running" /\ ~frame.inst[i].cleanedUp
           /\ \E status \in HttpStatuses :
                IF Solve(frame.INTERACTIVE, status)
                THEN /\ server' = [server EXCEPT ![c].at = "captcha",
                                                 ![c].captcha = TRUE]
                     /\ UNCHANGED frame
                ELSE /\ server' = [server EXCEPT ![c] = Respond(@, status, "cdp")]
                     /\ frame' = bindingCalled(frame, i, c)
    /\ UNCHANGED <<CDPRest, hist>>

\* Lines 324-435: the visitor solves the CAPTCHA (200) or gives up (403).
TrySolveCaptcha(c) ==
    /\ pc = "cdp" /\ server[c].at = "captcha"
    /\ LET i == server[c].waitOn
       IN  /\ frame.inst[i].chrome = "running" /\ ~frame.inst[i].cleanedUp
           /\ \E status \in {200, 403} :
                /\ server' = [server EXCEPT ![c] = Respond(@, status, "cdp")]
                /\ frame' = bindingCalled(frame, i, c)
    /\ UNCHANGED <<CDPRest, hist>>

\* Lines 602-609: the "exit" event of the browser.
ChromeExit(i) ==
    /\ pc = "cdp" /\ frame.inst[i].chrome \in {"running", "killing"}
    /\ \E code \in ExitCodes :
         LET gone == [frame EXCEPT !.inst[i].chrome = "exited"]
             first == IF code = "0" THEN cleanup(gone, i, TRUE) ELSE gone
         IN  /\ frame' = cleanup(first, i, FALSE)
             /\ hist' = [hist EXCEPT !.exits = @ \cup {code}]
    /\ UNCHANGED <<CDPRest, server>>

\* Lines 865-878.
CloseCDPFetchers ==
    /\ pc = "cdp" /\ cleanups(frame) # {}
    /\ frame' = CleanupAll(frame, cleanups(frame))
    /\ hist' = [hist EXCEPT !.closed = TRUE]
    /\ UNCHANGED <<CDPRest, server>>

NextCDP ==
    \/ \E c \in Calls : CdpFetch(c)
    \/ \E c \in Calls : GetCDPFetcher(c)
    \/ \E i \in Browsers : Spawn(i)
    \/ \E i \in Browsers : InitReady(i)
    \/ \E i \in Browsers : InitFails(i)
    \/ \E c \in Calls : AwaitInit(c)
    \/ \E c \in Calls : PerformFetch(c)
    \/ \E c \in Calls : TrySolveCaptcha(c)
    \/ \E i \in Browsers : ChromeExit(i)
    \/ CloseCDPFetchers

SpecCDP == InitCDP /\ [][NextCDP]_vars

\* Every step of the program and of the page is taken once it can be; when
\* the browser exits and whether closeCDPFetchers is called is left open.
FairSpecCDP ==
    /\ SpecCDP
    /\ \A c \in Calls : /\ WF_vars(GetCDPFetcher(c))
                        /\ WF_vars(AwaitInit(c))
                        /\ WF_vars(PerformFetch(c))
                        /\ WF_vars(TrySolveCaptcha(c))
    /\ \A i \in Browsers : /\ WF_vars(Spawn(i))
                           /\ WF_vars(InitReady(i) \/ InitFails(i))

\* C32: the browser fetcher is asked only for a request to archived.moe whose
\* direct answer was 403, and the CAPTCHA is put to the visitor only in
\* interactive mode; every other request returns the direct answer, and no
\* browser is started without such a request.
C32_CaptchaPathOnlyForMoe403 ==
    /\ \A c \in Calls :
         /\ server[c].via => (server[c].host = Moe /\ server[c].status = 403)
         /\ server[c].captcha => (frame.INTERACTIVE /\ server[c].via)
         /\ (server[c].at = "returned"
               /\ ~(server[c].host = Moe /\ server[c].status = 403))
              => /\ server[c].from = "direct"
                 /\ server[c].result = server[c].status
                 /\ ~server[c].via
    /\ hist.launches > 0 => \E c \in Calls : server[c].via

C32_Witness ==
    \E c, d \in Calls :
        /\ server[c].at = "returned" /\ server[c].captcha /\ server[c].from = "cdp"
        /\ server[d].at = "returned" /\ server[d].host = Moe
        /\ server[d].status = 404 /\ server[d].from = "direct"

\* A browser has been launched and has left for another reason than the
\* visitor closing it.
AbnormalEnd == hist.exits \ {"0"} # {} \/ hist.initFailed

\* C39: re-initialization is disabled only after an abnormal exit, a launch
\* error or an initialization failure; after exits with code 0 alone a later
\* getCDPFetcher call may launch a browser again.
C39_ReinitAfterNormalExit == frame.dontReinit => AbnormalEnd

InFlight(c) == server[c].at \in {"pending", "captcha"}

\* C40: every request handed to fetchViaCDP is eventually resolved or
\* rejected, so the cdpFetch call that waits for it returns.
C40_EveryRequestSettled ==
    \A c \in Calls : InFlight(c) ~> server[c].at = "returned"

\* C33: a request to desuarchive.org (the index request of a run, the posts
\* and threads of the primary pass) is sent under the primary limit of 20
\* retries and a request of the secondary pass under the limit of 6, in every
\* run of a process.
C33_RetryLimitOfSource ==
    /\ pc \in {"start", "primary", "primary thread"} => RETRY_CNT_MAX = 20
    /\ pc \in {"secondary", "secondary thread"} => RETRY_CNT_MAX = 6

\* ---------------------------------------------------------------------------
\* The pace of fetchThreadSearch (ffUtils.js): the clock, the two tables of
\* last times and the requests of the search loop.  `frame` holds the clock
\* and the module's globals, `hist` the times at which search requests went
\* out.
\* ---------------------------------------------------------------------------

MaxSearches == 4
\* The reading of Date.now() when the process starts, in ms.
StartTime == 10000

MIN_SEARCH_INTERVAL == 3000
\* How long a request, or the caller between two searches, takes.
Latencies == {100, 3000}

\*   sent   per host, when the last search request went out (-1: none yet)
\*   to     the host of the last search request
\*   gap    the time between it and the search request before it to the
\*          same host (-1: there was none)
\*   retry  it was a retry made by myFetch
\*   count  the search requests so far
\*   fresh  it was the first request of a fetchThreadSearch call
NoSearches ==
    [sent |-> [s \in Sites |-> -1], to |-> Desu, gap |-> -1, retry |-> FALSE,
     count |-> 0, fresh |-> FALSE]

InitPace ==
    /\ manifestFile = DEFAULT_MANIFEST /\ cacheFile = {} /\ chunkFile = NoChunk
    /\ written = {}
    /\ pc = "caller"
    /\ full = FALSE /\ RETRY_CNT_MAX = 20 /\ runN = 0
    /\ manifest = DEFAULT_MANIFEST
    /\ start = 0 /\ end = 0 /\ newPosts = 0 /\ toDownload = 0
    /\ downloaded = EmptyStore
    /\ pNum = 0 /\ threadNum = 0
    /\ consPost = << >>
    /\ hist = NoSearches
    /\ server = Idle
    /\ frame = [now |-> StartTime,
                lastSearchTime |-> [s \in Sites |-> 0],
                lastFetchTime |-> [s \in Sites |-> 0],
                fetchSite |-> Desu, MIN_FETCH_INTERVAL |-> 0,
                site |-> Desu, page |-> 1, retryN |-> 0, first |-> FALSE]

PaceRest == <<disk, full, runN, window, locals, server>>

\* Lines 434-453: fetchThreadInner, whose own request was answered with 500
\* or "Thread not found.", calls fetchThreadSearch.
CallSearch ==
    /\ pc = "caller"
    /\ hist.count < MaxSearches
    /\ \E site \in Sites, pause \in Latencies :
        LET globals == setFetchSite(frame, site)
        IN  /\ frame' = [globals EXCEPT !.site = site, !.page = 1, !.retryN = 0,
                                        !.first = TRUE,
                                        !.now = @ + pause]
            /\ RETRY_CNT_MAX' = CHOOSE limit \in RetryLimits("ffUtils.js", site) : TRUE
    /\ pc' = "fetchThreadSearch"
    /\ UNCHANGED <<PaceRest, hist>>

\* Lines 347-351: the delay of the search loop before a request.
SearchDelay(f) ==
    Max(0, MIN_SEARCH_INTERVAL - (f.now - f.lastSearchTime[f.site]))

\* Lines 120-127: the delay of myFetch before a request, at clock reading t.
FetchDelay(f, t) ==
    Max(0, f.MIN_FETCH_INTERVAL - (t - f.lastFetchTime[f.fetchSite]))

\* One request of the search: the delays (the loop's at a new page, none at
\* a retry), the request, and what follows from the answer: the next page or
\* the restart from the last timestamp (390-398), the end of the search
\* (354-375, 387-389), or myFetch's backoff and retry (133-143).
SearchRequest ==
    /\ pc \in {"fetchThreadSearch", "myFetch"}
    /\ \E status \in {200, 429, 500}, took \in Latencies, more \in BOOLEAN :
        LET wait == IF pc = "myFetch" THEN 0 ELSE SearchDelay(frame)
            asked == frame.now + wait
            sentAt == asked + FetchDelay(frame, asked)
            allowErrors == IF frame.site = Moe THEN {403} ELSE {}
            ok == Acceptable(allowErrors, status)
            thrown == ~ok /\ Exhausted(frame.retryN)
            backoff == Backoff("ffUtils.js", frame.retryN, status)
            before == hist.sent[frame.site]
            room == hist.count + 1 < MaxSearches
        IN  /\ (~ok /\ ~thrown) => room
            /\ hist' = [hist EXCEPT
                           !.sent[frame.site] = sentAt,
                           !.to = frame.site,
                           !.gap = IF before < 0 THEN -1 ELSE sentAt - before,
                           !.retry = pc = "myFetch",
                           !.fresh = frame.first,
                           !.count = @ + 1]
            /\ IF ok
               THEN /\ frame' = [frame EXCEPT !.now = sentAt + took,
                                              !.lastFetchTime[frame.fetchSite] = sentAt,
                                              !.page = IF more /\ room THEN @ + 1 ELSE 1,
                                              !.retryN = 0,
                                              !.first = FALSE]
                    /\ pc' = IF more /\ room THEN "fetchThreadSearch" ELSE "caller"
               ELSE IF thrown
               THEN /\ frame' = [frame EXCEPT !.now = sentAt + took,
                                              !.lastFetchTime[frame.fetchSite] = sentAt,
                                              !.first = FALSE]
                    /\ pc' = "caller"
               ELSE /\ frame' = [frame EXCEPT !.now = sentAt + took + backoff,
                                              !.lastFetchTime[frame.fetchSite] = sentAt,
                                              !.retryN = @ + 1,
                                              !.first = FALSE]
                    /\ pc' = "myFetch"
    /\ UNCHANGED <<PaceRest, RETRY_CNT_MAX>>

NextPace ==
    \/ CallSearch
    \/ SearchRequest

SpecPace == InitPace /\ [][NextPace]_vars

\* C34: two successive search requests to the same host, neither of them a
\* retry made inside myFetch, are at least MIN_SEARCH_INTERVAL apart, be the
\* second one the next page of the same search or the first page of the
\* search for another thread.
C34_SearchInterval ==
    (hist.gap >= 0 /\ ~hist.retry) => hist.gap >= MIN_SEARCH_INTERVAL

\* The primary pass of the run is over.
AfterPrimary == pc \in {"secondary", "secondary thread", "write cache",
                        "write chunk", "writing chunk", "save manifest"}

\* The run has saved its manifest.
RunSaved == pc \in {"start", "exit"} /\ manifestFile # hist.manifest0

\* C35: after the primary pass every number of the window has an entry, a
\* run that saves its manifest leaves lastDownLoaded at the window end or
\* beyond and above the old value, and lastDownLoaded never decreases.
C35_WindowCovered ==
    /\ AfterPrimary => \A n \in start..end : downloaded[n].kind # "none"
    /\ RunSaved => /\ manifestFile.lastDownLoaded >= end
                   /\ manifestFile.lastDownLoaded > hist.manifest0.lastDownLoaded
    /\ manifestFile.lastDownLoaded >= hist.manifest0.lastDownLoaded

\* The loop of main has ended after a run that saved its manifest: the run
\* took all the new posts the index reported (line 688 returned false).
LoopEnded == full /\ pc = "exit" /\ RunSaved /\ toDownload = newPosts

\* C36: when the --full loop ends after a run without a fatal failure,
\* lastDownLoaded has reached the latest post number the index reported to
\* that run (the old lastDownLoaded plus newPosts); the loop ends because
\* every run that does work moves lastDownLoaded up.
C36_FullModeReachesLatest ==
    (LoopEnded /\ hist.fatal = {})
        => manifestFile.lastDownLoaded >= hist.manifest0.lastDownLoaded + newPosts

\* The priority of a record's effective source; a placeholder has none.
Rank(r) == IF IsPost(r) THEN PRIORITY(getSource(r)) ELSE 0

\* The records written so far: the temporary file during the scan, the
\* replaced input file after it.
ScanOutput == IF ScanOver THEN frame.inputPath ELSE frame.outputPath

\* C37: the scanner writes one record for every input record, in the input's
\* order: the record written at a position has the post number of the input
\* record at that position and a source of at least its priority, so that a
\* post is never replaced by a placeholder or by a lower-priority version;
\* when the scan is over the output has as many records as the input.
C37_RecordsOneToOne ==
    /\ Len(ScanOutput) <= Len(hist.before)
    /\ \A i \in 1..Len(ScanOutput) :
         /\ ScanOutput[i].num = hist.before[i].num
         /\ Rank(ScanOutput[i]) >= Rank(hist.before[i])
         /\ IsPost(hist.before[i]) => IsPost(ScanOutput[i])
    /\ ScanOver => Len(ScanOutput) = Len(hist.before)

C37_Witness ==
    /\ ScanOver
    /\ Len(ScanOutput) = MaxRecs
    /\ \E i \in 1..MaxRecs :
         /\ IsPost(hist.before[i])
         /\ Rank(ScanOutput[i]) > Rank(hist.before[i])
    /\ \E i \in 1..MaxRecs : ScanOutput[i] = hist.before[i]

\* ---------------------------------------------------------------------------
\* transformNDJSON (reCheck.js): the input file is a sequence of bytes, the
\* read stream hands it over in buffers of any length, and the records are
\* numbers written in digits.  `frame` holds the file, the stream position,
\* the leftover bytes and the output file; `hist` the records the file was
\* written from and the values handed to the transform.
\* ---------------------------------------------------------------------------

MaxLines == 3
MaxDigits == 2

NL == "\n"
Comma == ","
Blank == {" ", "\t", "\r"}
Digits == {"1", "2"}

\* The records of a chunk file: numbers of up to MaxDigits digits.
Entries == UNION {[1..k -> Digits] : k \in 1..MaxDigits}

\* JSON.stringify of a record.
stringify(entry) == entry

RECURSIVE JoinLines(_)
\* newEntries.join('\n') + '\n' (line 142), and the text of a well-formed
\* file.
JoinLines(entries) ==
    IF entries = << >> THEN << >>
    ELSE stringify(Head(entries)) \o <<NL>> \o JoinLines(Tail(entries))

\* The transform given to transformNDJSON: any function of the record; this
\* one marks the record.
transform(entry) == <<"9">> \o entry

RECURSIVE ApplyAll(_)
ApplyAll(entries) ==
    IF entries = << >> THEN << >>
    ELSE <<transform(Head(entries))>> \o ApplyAll(Tail(entries))

RECURSIVE ScanFrom(_, _, _, _)
\* Lines 105-125: newlines become commas, except one that follows another
\* with nothing but blanks between them; lastNL is the place of the last
\* newline (0: none).
ScanFrom(data, i, prevWasNL, lastNL) ==
    IF i > Len(data) THEN [data |-> data, lastNL |-> lastNL]
    ELSE IF data[i] = NL
         THEN ScanFrom(IF prevWasNL THEN data ELSE [data EXCEPT ![i] = Comma],
                       i + 1, TRUE, i)
    ELSE IF data[i] \in Blank
         THEN ScanFrom(data, i + 1, prevWasNL, lastNL)
    ELSE ScanFrom(data, i + 1, FALSE, lastNL)

RECURSIVE SplitCommas(_)
SplitCommas(text) ==
    IF \A k \in 1..Len(text) : text[k] # Comma THEN <<text>>
    ELSE LET k == CHOOSE j \in 1..Len(text) :
                     text[j] = Comma /\ \A m \in 1..(j - 1) : text[m] # Comma
         IN  <<SubSeq(text, 1, k - 1)>> \o SplitCommas(SubSeq(text, k + 1, Len(text)))

NotBlank(c) == c \notin Blank
Strip(text) == SelectSeq(text, NotBlank)

\* JSON.parse of `[` text `]` (line 133): the values between the commas, or
\* a SyntaxError when a value is missing or is not a number.
JSONparse(text) ==
    IF Strip(text) = << >> THEN [ok |-> TRUE, entries |-> << >>]
    ELSE LET parts == SplitCommas(text)
         IN  IF \E k \in 1..Len(parts) :
                    \/ Strip(parts[k]) = << >>
                    \/ \E m \in 1..Len(Strip(parts[k])) : Strip(parts[k])[m] \notin Digits
             THEN [ok |-> FALSE, entries |-> << >>]
             ELSE [ok |-> TRUE, entries |-> [k \in 1..Len(parts) |-> Strip(parts[k])]]

\* Mutant: the bytes after the last newline are not kept.
M_Leftover_Dropped(data, lastNL) == << >>

\* Line 146: data.subarray(lastNL + 1).
Leftover(data, lastNL) == SubSeq(data, lastNL + 1, Len(data))

InitTransform ==
    /\ manifestFile = DEFAULT_MANIFEST /\ cacheFile = {} /\ chunkFile = NoChunk
    /\ written = {}
    /\ pc = "reading"
    /\ full = FALSE /\ RETRY_CNT_MAX = 20 /\ runN = 0
    /\ manifest = DEFAULT_MANIFEST
    /\ start = 0 /\ end = 0 /\ newPosts = 0 /\ toDownload = 0
    /\ downloaded = EmptyStore
    /\ pNum = 0 /\ threadNum = 0 /\ consPost = << >>
    /\ server = Idle
    /\ \E k \in 0..MaxLines : \E records \in [1..k -> Entries] :
         /\ hist = [records |-> records, entries |-> << >>, split |-> FALSE]
         /\ frame = [inputPath |-> JoinLines(records), position |-> 0,
                     leftover |-> << >>, outputPath |-> << >>]

TransformRest == <<disk, process, window, locals, server>>

\* Lines 98-147: one buffer of the stream.
ReadBuffer ==
    /\ pc = "reading"
    /\ frame.position < Len(frame.inputPath)
    /\ \E n \in 1..(Len(frame.inputPath) - frame.position) :
        LET buf == SubSeq(frame.inputPath, frame.position + 1, frame.position + n)
            scanned == ScanFrom(frame.leftover \o buf, 1, FALSE, 0)
            parsed == JSONparse(SubSeq(scanned.data, 1, scanned.lastNL - 1))
            rest == Leftover(scanned.data, scanned.lastNL)
        IN  IF scanned.lastNL = 0
            THEN /\ frame' = [frame EXCEPT !.position = @ + n,
                                           !.leftover = scanned.data]
                 /\ hist' = [hist EXCEPT !.split = TRUE]
                 /\ pc' = "reading"
            ELSE IF ~parsed.ok
            THEN /\ frame' = [frame EXCEPT !.position = @ + n]
                 /\ pc' = "threw"
                 /\ UNCHANGED hist
            ELSE /\ frame' = [frame EXCEPT
                                 !.position = @ + n,
                                 !.leftover = rest,
                                 !.outputPath = @ \o JoinLines(ApplyAll(parsed.entries))]
                 /\ hist' = [hist EXCEPT !.entries = @ \o parsed.entries,
                                         !.split = @ \/ rest # << >>]
                 /\ pc' = "reading"
    /\ UNCHANGED TransformRest

\* Lines 149-193: the stream has ended; what is left over is one more batch.
EndOfStream ==
    /\ pc = "reading"
    /\ frame.position = Len(frame.inputPath)
    /\ IF frame.leftover = << >>
       THEN /\ pc' = "done"
            /\ UNCHANGED <<frame, hist>>
       ELSE LET scanned == ScanFrom(frame.leftover, 1, FALSE, 0)
                text == IF scanned.lastNL = 0 THEN scanned.data
                        ELSE SubSeq(scanned.data, 1, scanned.lastNL - 1)
                parsed == JSONparse(text)
            IN  IF ~parsed.ok
                THEN /\ pc' = "threw"
                     /\ UNCHANGED <<frame, hist>>
                ELSE /\ frame' = [frame EXCEPT
                                     !.leftover = << >>,
                                     !.outputPath = @ \o JoinLines(ApplyAll(parsed.entries))]
                     /\ hist' = [hist EXCEPT !.entries = @ \o parsed.entries]
                     /\ pc' = "done"
    /\ UNCHANGED TransformRest

NextTransform ==
    \/ ReadBuffer
    \/ EndOfStream

SpecTransform == InitTransform /\ [][NextTransform]_vars

\* C38: whatever the lengths of the buffers, the transform is applied to the
\* records of a well-formed file in file order, each once, nothing is thrown,
\* and the finished output holds the transformed records in that order, one
\* on a line.
C38_SplitIndependent ==
    /\ pc # "threw"
    /\ Len(hist.entries) <= Len(hist.records)
    /\ hist.entries = SubSeq(hist.records, 1, Len(hist.entries))
    /\ frame.outputPath = JoinLines(ApplyAll(hist.entries))
    /\ pc = "done" => hist.entries = hist.records

C38_Witness ==
    /\ pc = "done"
    /\ hist.split
    /\ Len(hist.records) = MaxLines
    /\ \E k \in 1..MaxLines : Len(hist.records[k]) = MaxDigits

====
